---- MODULE Spec2Model ----
(***************************************************************************)
(* A model of the krill RPKI CA / Publication Server core:                 *)
(*   - the event-sourcing framework (aggregate store, optimistic           *)
(*     concurrency, listeners) with the CaServer facade calls on top,      *)
(*   - the Publication Server (publishers, jails, object sets, deltas),    *)
(*   - the CA aggregate (children, resource classes, keys, routes, ROAs).  *)
(* Each part has its own specification over the shared variables.          *)
(***************************************************************************)
EXTENDS Integers, Sequences, FiniteSets, TLC

(***************************************************************************)
(* Bounds of the model                                                     *)
(***************************************************************************)
\* highest aggregate version a facade call still starts from
MaxVersion == 3

\* highest version of a CA a command on the committed CAs still starts from
MaxCaVersion == 6

\* highest version of a CA at which update_entitlements starts
MaxFlowVersion == 7

\* highest key number of a CA: a key roll starts only below it
MaxKeys == 2

\* the time stops here
MaxTime == 1

(***************************************************************************)
(* Handles, resources                                                      *)
(***************************************************************************)
Threads == {"t1", "t2"}

\* the reserved name of the trust anchor
TA_NAME == "ta"

ta_handle == TA_NAME

ChildHandles == {"child"}

Handles == {ta_handle} \cup ChildHandles

Tokens == {"tok1", "tok2"}

\* Resource atoms: one AS number, the IPv4 and the IPv6 addresses of a
\* scaled-down address space.
Atoms == {"as1", "v4a", "v4b", "v6a"}

\* ResourceSet::all_resources()
all_resources == Atoms

\* The resource sets requests are drawn from.
ResourceChoices == {{"v4a"}, {"v4a", "v4b"}}

NoChild == [none |-> TRUE]

NoAgg == [absent |-> TRUE]

(***************************************************************************)
(* Published objects and the atoms of a publication delta, shared by the   *)
(* CAs and the Publication Server.                                         *)
(***************************************************************************)
\* The hash that names a content (SHA-256 in the program).
hash(content) == <<"sha256", content>>

\* requests::Publish, requests::Update, requests::Withdraw
Publish(uri, content) == [uri |-> uri, content |-> content]

Update(uri, content, old) == [uri |-> uri, content |-> content, hash |-> old]

Withdraw(uri, old) == [uri |-> uri, hash |-> old]

\* PublicationDelta: the atoms a CA declares for one of its keys.
PublicationDelta(publishes, updates, withdraws) ==
    [publishes |-> publishes, updates |-> updates, withdraws |-> withdraws]

\* The published set of a CA after a delta: the withdrawn and the replaced
\* objects leave, the published and the replacing objects enter.
apply_delta(published, delta) ==
    {o \in published :
        o.uri \notin {a.uri : a \in delta.updates \cup delta.withdraws}}
    \cup {[uri |-> a.uri, content |-> a.content] :
            a \in delta.publishes \cup delta.updates}

(***************************************************************************)
(* Events of the CA aggregate.  Every event is an envelope                 *)
(* (handle, version, details).                                             *)
(***************************************************************************)
StoredEvent(handle, version, details) ==
    [handle |-> handle, version |-> version, det |-> details]

\* IniDet::init: the init event of a child CA has version 0.
IniVersion == 0

\* A faulty IniDet::init that numbers the init event as the first change.
IniDet_init_from_one(handle, token) ==
    StoredEvent(handle, IniVersion + 1, [type |-> "Ini", isTa |-> FALSE, token |-> token])

IniDet_init(handle, token) ==
    StoredEvent(handle, IniVersion, [type |-> "Ini", isTa |-> FALSE, token |-> token])

\* IniDet::init_ta: the init event of the trust anchor, with all resources.
IniDet_init_ta(handle) ==
    StoredEvent(handle, IniVersion, [type |-> "Ini", isTa |-> TRUE, token |-> "tok1"])

child_added(handle, version, child, token, res) ==
    StoredEvent(handle, version,
                [type |-> "ChildAdded", child |-> child, token |-> token, res |-> res])

child_updated_token(handle, version, child, token) ==
    StoredEvent(handle, version,
                [type |-> "ChildUpdatedToken", child |-> child, token |-> token])

child_updated_resources(handle, version, child, res) ==
    StoredEvent(handle, version,
                [type |-> "ChildUpdatedResourceClass", child |-> child, res |-> res])

\* The certificate is for one key of the child.
certificate_issued(handle, version, child, key, res) ==
    StoredEvent(handle, version,
                [type |-> "CertificateIssued", child |-> child, key |-> key, res |-> res])

parent_added(handle, version, parent, token) ==
    StoredEvent(handle, version,
                [type |-> "ParentAdded", parent |-> parent, token |-> token])

resource_class_added(handle, version, parent) ==
    StoredEvent(handle, version, [type |-> "ResourceClassAdded", parent |-> parent])

\* EvtDet::CertificateRequested: the request asks for the resources the
\* parent listed as the entitlement.
certificate_requested(handle, version, key, res) ==
    StoredEvent(handle, version,
                [type |-> "CertificateRequested", key |-> key, res |-> res])

\* at: the time the certificate came in
certificate_received(handle, version, key, res, at) ==
    StoredEvent(handle, version,
                [type |-> "CertificateReceived", key |-> key, res |-> res, at |-> at])

\* A faulty constructor that stores the pending key as an activation.
keyroll_pending_key_added_as_activated(handle, version, key) ==
    StoredEvent(handle, version, [type |-> "KeyActivated", key |-> key])

\* EvtDet::KeyrollPendingKeyAdded: the new key of a roll
keyroll_pending_key_added(handle, version, key) ==
    StoredEvent(handle, version, [type |-> "KeyrollPendingKeyAdded", key |-> key])

\* The events of a key, named by their type: KeyActivated,
\* KeyRevocationRequested, KeyRollFinished (the revocation is confirmed) on
\* the CA, ChildCertificateRevoked on the parent.
key_event(handle, version, type, child, key) ==
    StoredEvent(handle, version, [type |-> type, child |-> child, key |-> key])

\* The ROAs made (updated) and the authorizations whose ROA is removed.
roas_updated(handle, version, updated, removed) ==
    StoredEvent(handle, version,
                [type |-> "RoasUpdated", updated |-> updated, removed |-> removed])

\* A faulty constructor that leaves the delta out of the event.
published_without_delta(handle, version, key, delta) ==
    StoredEvent(handle, version,
                [type |-> "Published", key |-> key, delta |-> PublicationDelta({}, {}, {})])

\* EvtDet::Published: the delta of one key of the resource class.
published(handle, version, key, delta) ==
    StoredEvent(handle, version,
                [type |-> "Published", key |-> key, delta |-> delta])

\* EvtDet::published_ta: the delta of the one key of the TA.
published_ta(handle, version, delta) ==
    StoredEvent(handle, version, [type |-> "TaPublished", delta |-> delta])

(***************************************************************************)
(* The CA aggregate (CertAuth): state, init and apply.                     *)
(***************************************************************************)
NoKey == [id |-> 0, res |-> {}]

\* requested: a certificate request for the current key is outstanding,
\* since: when the newest key with a certificate got its first certificate
NoRc == [state |-> "None", cur |-> NoKey, new |-> NoKey, old |-> NoKey,
         requested |-> FALSE, since |-> 0]

\* The trust anchor: one resource class, one active key, a self-signed
\* certificate for all resources.
TaRc == [state |-> "Active", cur |-> [id |-> 1, res |-> all_resources],
         new |-> NoKey, old |-> NoKey, requested |-> FALSE, since |-> 0]

\* Aggregate::init
init(event) ==
    [version  |-> event.version + 1,
     isTa     |-> event.det.isTa,
     token    |-> event.det.token,
     parents  |-> {},
     rc       |-> IF event.det.isTa THEN TaRc ELSE NoRc,
     children |-> [c \in ChildHandles |-> NoChild],
     issued   |-> [c \in ChildHandles |-> {}],
     routes   |-> {},
     roas     |-> {},
     published |-> {}]

\* A faulty update that inserts the updated ROAs and removes none.
Roas_updated_insert_only(roas, updated, removed) ==
    {r \in roas : \A u \in updated : u.auth # r.auth} \cup updated

\* Roas::updated: the updated ROAs are inserted under their authorization,
\* then the removed authorizations are taken out.
Roas_updated(roas, updated, removed) ==
    LET inserted == {r \in roas : \A u \in updated : u.auth # r.auth} \cup updated
    IN  {r \in inserted : r.auth \notin removed}

\* What an event does to the aggregate's data (the version aside).
ApplyDetails(agg, det) ==
    CASE det.type = "ChildAdded" ->
           [agg EXCEPT !.children[det.child] = [token |-> det.token, res |-> det.res]]
      [] det.type = "ChildUpdatedToken" ->
           [agg EXCEPT !.children[det.child].token = det.token]
      [] det.type = "ChildUpdatedResourceClass" ->
           [agg EXCEPT !.children[det.child].res = det.res,
                       \* an issued certificate that is now invalid is dropped
                       !.issued[det.child] = {cert \in @ : cert.res \subseteq det.res}]
      [] det.type = "CertificateIssued" ->
           \* the certificate issued before for the same key is replaced
           [agg EXCEPT !.issued[det.child] =
                           {cert \in @ : cert.key # det.key}
                               \cup {[key |-> det.key, res |-> det.res]}]
      [] det.type = "ParentAdded" ->
           [agg EXCEPT !.parents = @ \cup {[handle |-> det.parent, token |-> det.token]}]
      [] det.type = "ResourceClassAdded" ->
           [agg EXCEPT !.rc = [NoRc EXCEPT !.state = "Pending", !.cur.id = 1]]
      [] det.type = "CertificateRequested" ->
           \* a request for the new key of a roll is what RollPending stands for
           IF det.key = agg.rc.cur.id THEN [agg EXCEPT !.rc.requested = TRUE] ELSE agg
      [] det.type = "CertificateReceived" ->
           IF det.key = agg.rc.cur.id
           THEN [agg EXCEPT !.rc.state = IF @ = "Pending" THEN "Active" ELSE @,
                            !.rc.since = IF agg.rc.state = "Pending" THEN det.at ELSE @,
                            !.rc.cur.res = det.res,
                            !.rc.requested = FALSE]
           ELSE IF det.key = agg.rc.new.id /\ agg.rc.state = "RollPending"
           THEN [agg EXCEPT !.rc.state = "RollNew", !.rc.new.res = det.res,
                            !.rc.since = det.at]
           ELSE agg
      [] det.type = "KeyrollPendingKeyAdded" ->
           [agg EXCEPT !.rc.state = "RollPending", !.rc.new = [id |-> det.key, res |-> {}]]
      [] det.type = "KeyActivated" ->
           \* the new key becomes the current one, the old one awaits revocation
           [agg EXCEPT !.rc.state = "RollOld", !.rc.cur = agg.rc.new,
                       !.rc.old = agg.rc.cur, !.rc.new = NoKey,
                       !.rc.requested = FALSE]
      [] det.type = "KeyRollFinished" ->
           [agg EXCEPT !.rc.state = "Active", !.rc.old = NoKey]
      [] det.type = "ChildCertificateRevoked" ->
           [agg EXCEPT !.issued[det.child] = {cert \in @ : cert.key # det.key}]
      [] det.type = "RoasUpdated" ->
           [agg EXCEPT !.roas = Roas_updated(@, det.updated, det.removed)]
      [] det.type \in {"Published", "TaPublished"} ->
           [agg EXCEPT !.published = apply_delta(@, det.delta)]
      [] OTHER -> agg

\* Aggregate::apply
apply(agg, event) ==
    [ApplyDetails(agg, event.det) EXCEPT !.version = agg.version + 1]

RECURSIVE ApplyFrom(_, _, _)
ApplyFrom(agg, events, i) ==
    IF i > Len(events) THEN agg
    ELSE ApplyFrom(apply(agg, events[i]), events, i + 1)

\* A faulty apply_all that stops before the last event of the batch.
apply_all_skip_last(agg, events) ==
    IF events = <<>> THEN agg ELSE ApplyFrom(agg, SubSeq(events, 1, Len(events) - 1), 1)

\* Aggregate::apply_all: applies the events oldest first.
apply_all(agg, events) == ApplyFrom(agg, events, 1)

\* The resources on the certificate of the CA's current key.
current_resources(agg) ==
    IF agg.rc.state \in {"Active", "RollPending", "RollNew", "RollOld"}
    THEN agg.rc.cur.res ELSE {}

(***************************************************************************)
(* Route authorizations and ROAs.  A prefix lies in one block (atom) of    *)
(* the address space; a resource set contains it when it has the block.    *)
(***************************************************************************)
Prefix(fam, atom, len) == [fam |-> fam, atom |-> atom, len |-> len]

\* RoaDefinition: (asn, prefix, optional max length); {} is no max length.
RoaDefinition(asn, prefix, max_length) ==
    [asn |-> asn, prefix |-> prefix, max_length |-> max_length]

\* The definitions requests are drawn from: in and out of the max length
\* range of their family, in each of the blocks.
RouteAuths ==
    {RoaDefinition(64496, Prefix("v4", "v4a", 24), {}),
     RoaDefinition(64496, Prefix("v4", "v4a", 24), {32}),
     RoaDefinition(64496, Prefix("v4", "v4a", 24), {33}),
     RoaDefinition(64496, Prefix("v4", "v4a", 24), {23}),
     RoaDefinition(64496, Prefix("v4", "v4b", 24), {}),
     RoaDefinition(64496, Prefix("v6", "v6a", 32), {48}),
     RoaDefinition(64496, Prefix("v6", "v6a", 32), {129})}

\* The address length of the family.
addr_bits(fam) == IF fam = "v4" THEN 32 ELSE 128

\* The max length that counts: the prefix length when none is given.
effective_max_length(prefix, max_length) ==
    IF max_length = {} THEN prefix.len ELSE CHOOSE n \in max_length : TRUE

\* A faulty make_roa that authorizes every length of the longest family.
make_roa_all_lengths(auth, key) ==
    [auth |-> auth, key |-> key.id, asn |-> auth.asn, prefix |-> auth.prefix,
     max_length |-> {addr_bits("v6")}]

\* Roas::make_roa: the ROA object carries the ASN, the prefix and the max
\* length of the authorization as they are, and is signed under the key.
make_roa(auth, key) ==
    [auth |-> auth, key |-> key.id, asn |-> auth.asn, prefix |-> auth.prefix,
     max_length |-> auth.max_length]

(***************************************************************************)
(* The objects a CA publishes.  Every key has its own publication point;   *)
(* an object has a name there and a content.  A content is a record of one *)
(* shape for all types of object: a ROA carries its authorization, a       *)
(* certificate the child, the child's key and the resources, a manifest    *)
(* its entries (name, hash), a CRL none of these.                          *)
(***************************************************************************)
ObjectName(type, auth, cert) == [type |-> type, auth |-> auth, cert |-> cert]

ObjectUri(key, name) == [key |-> key, name |-> name]

ObjectContent(type, key, auth, cert, entries) ==
    [type |-> type, key |-> key, auth |-> auth, cert |-> cert,
     entries |-> entries]

Object(uri, content) == [uri |-> uri, content |-> content]

\* The ROA object of a ROA of the aggregate, named after its authorization.
roa_object(roa) ==
    Object(ObjectUri(roa.key, ObjectName("roa", {roa.auth}, {})),
           ObjectContent("roa", roa.key, {roa}, {}, {}))

\* The certificate issued to a key of a child, named after child and key.
cert_object(key, child, cert) ==
    Object(ObjectUri(key, ObjectName("cer", {}, {[child |-> child, key |-> cert.key]})),
           ObjectContent("cer", key, {},
                         {[child |-> child, key |-> cert.key, res |-> cert.res]}, {}))

crl_object(key) ==
    Object(ObjectUri(key, ObjectName("crl", {}, {})),
           ObjectContent("crl", key, {}, {}, {}))

\* A faulty manifest that leaves the CRL out.
manifest_object_without_crl(key, signed) ==
    Object(ObjectUri(key, ObjectName("mft", {}, {})),
           ObjectContent("mft", key, {}, {},
                         {<<o.uri.name, hash(o.content)>> : o \in signed}))

\* The manifest of a key: one entry (name, hash) for its CRL and for every
\* object signed by the key.
manifest_object(key, signed) ==
    Object(ObjectUri(key, ObjectName("mft", {}, {})),
           ObjectContent("mft", key, {}, {},
                         {<<o.uri.name, hash(o.content)>> :
                             o \in signed \cup {crl_object(key)}}))

\* The keys that publish: the current key, and next to it the new key of a
\* roll once it has a certificate and the old key until the roll finishes.
publishing_keys(agg) ==
    CASE agg.rc.state \in {"Active", "RollPending"} -> {agg.rc.cur.id}
      [] agg.rc.state = "RollNew" -> {agg.rc.cur.id, agg.rc.new.id}
      [] agg.rc.state = "RollOld" -> {agg.rc.cur.id, agg.rc.old.id}
      [] OTHER -> {}

\* The objects signed by a key: its ROAs, and under the current key the
\* certificates issued to the children.
signed_objects(agg, key) ==
    {roa_object(roa) : roa \in {r \in agg.roas : r.key = key}}
    \cup IF key = agg.rc.cur.id
         THEN UNION {{cert_object(key, c, cert) : cert \in agg.issued[c]} :
                        c \in ChildHandles}
         ELSE {}

\* The objects of the publication point of a key, as they are now.
current_objects(agg, key) ==
    IF key \in publishing_keys(agg)
    THEN signed_objects(agg, key)
         \cup {crl_object(key), manifest_object(key, signed_objects(agg, key))}
    ELSE {}

published_for_key(agg, key) == {o \in agg.published : o.uri.key = key}

\* A faulty delta in which an update names the hash of the new content.
publication_delta_new_hash(old, new) ==
    PublicationDelta(
        {Publish(o.uri, o.content) :
            o \in {n \in new : n.uri \notin {p.uri : p \in old}}},
        {Update(o.uri, o.content, hash(o.content)) :
            o \in {n \in new : n \notin old /\ n.uri \in {p.uri : p \in old}}},
        {Withdraw(p.uri, hash(p.content)) :
            p \in {q \in old : q.uri \notin {n.uri : n \in new}}})

\* The delta from the previously published set of a key to its current
\* objects: new URIs are published, changed ones updated with the hash of
\* the object they replace, vanished ones withdrawn with their hash.
publication_delta(old, new) ==
    PublicationDelta(
        {Publish(o.uri, o.content) :
            o \in {n \in new : n.uri \notin {p.uri : p \in old}}},
        {Update(o.uri, o.content,
                hash((CHOOSE p \in old : p.uri = o.uri).content)) :
            o \in {n \in new : n \notin old /\ n.uri \in {p.uri : p \in old}}},
        {Withdraw(p.uri, hash(p.content)) :
            p \in {q \in old : q.uri \notin {n.uri : n \in new}}})

is_empty(delta) ==
    delta.publishes = {} /\ delta.updates = {} /\ delta.withdraws = {}

(***************************************************************************)
(* Commands of the CA aggregate and their processing.                      *)
(***************************************************************************)
\* "keep" for the token and {} for the resources leave the value as it is.
KeepToken == "keep"

NoCmd == [type |-> "None"]

add_child(child, token, res) ==
    [type |-> "AddChild", child |-> child, token |-> token, res |-> res]

update_child(child, token, res) ==
    [type |-> "UpdateChild", child |-> child, token |-> token, res |-> res]

\* A faulty request that asks for no resources at all.
certify_child_for_nothing(child, token, key, res) ==
    [type |-> "CertifyChild", child |-> child, token |-> token, key |-> key, res |-> {}]

certify_child(child, token, key, res) ==
    [type |-> "CertifyChild", child |-> child, token |-> token, key |-> key, res |-> res]

add_parent(parent, token) == [type |-> "AddParent", parent |-> parent, token |-> token]

upd_entitlements(parent, res) ==
    [type |-> "UpdateEntitlements", parent |-> parent, res |-> res]

\* key: the key the certificate is for, now: the time of the call
upd_received_cert(parent, key, res, now) ==
    [type |-> "UpdateReceivedCert", parent |-> parent, key |-> key, res |-> res,
     now |-> now]

route_authorizations_update(added, removed) ==
    [type |-> "RouteAuthorizationsUpdate", added |-> added, removed |-> removed]

\* The commands of a key roll and of a revocation; now is the time of the
\* call, key the key to revoke.
keyroll(type, staging_time, time) ==
    [type |-> type, staging_time |-> staging_time, now |-> time]

revoke_key(type, child, key) == [type |-> type, child |-> child, key |-> key]

publish == [type |-> "Publish"]

Accepted(events) == [err |-> "none", events |-> events]

Rejected(error) == [err |-> error, events |-> <<>>]

has_child(agg, child) == agg.children[child] # NoChild

\* A faulty AddChild that takes the resources as they are asked for.
ProcessAddChild_any_resources(agg, h, cmd) ==
    IF has_child(agg, cmd.child) THEN Rejected("DuplicateChild")
    ELSE Accepted(<<child_added(h, agg.version, cmd.child, cmd.token, cmd.res)>>)

ProcessAddChild(agg, h, cmd) ==
    IF has_child(agg, cmd.child) THEN Rejected("DuplicateChild")
    ELSE IF ~(cmd.res \subseteq current_resources(agg)) THEN Rejected("MissingResources")
    ELSE Accepted(<<child_added(h, agg.version, cmd.child, cmd.token, cmd.res)>>)

\* One event for a changed token, then one for changed resources.
ProcessUpdateChild(agg, h, cmd) ==
    IF ~has_child(agg, cmd.child) THEN Rejected("UnknownChild")
    ELSE IF ~(cmd.res \subseteq current_resources(agg)) THEN Rejected("MissingResources")
    ELSE LET child == agg.children[cmd.child]
             tok == IF cmd.token # KeepToken /\ cmd.token # child.token
                    THEN <<child_updated_token(h, agg.version, cmd.child, cmd.token)>>
                    ELSE <<>>
             res == IF cmd.res # {} /\ cmd.res # child.res
                    THEN <<child_updated_resources(h, agg.version + Len(tok),
                                                   cmd.child, cmd.res)>>
                    ELSE <<>>
         IN  Accepted(tok \o res)

ProcessCertifyChild(agg, h, cmd) ==
    IF ~has_child(agg, cmd.child) THEN Rejected("UnknownChild")
    ELSE IF agg.children[cmd.child].token # cmd.token THEN Rejected("Unauthorized")
    ELSE IF ~(cmd.res \subseteq agg.children[cmd.child].res) THEN Rejected("MissingResources")
    ELSE Accepted(<<certificate_issued(h, agg.version, cmd.child, cmd.key, cmd.res)>>)

ProcessAddParent(agg, h, cmd) ==
    IF agg.isTa THEN Rejected("NotAllowedForTa")
    ELSE IF \E p \in agg.parents : p.handle = cmd.parent THEN Rejected("DuplicateParent")
    ELSE Accepted(<<parent_added(h, agg.version, cmd.parent, cmd.token)>>)

\* A faulty UpdateEntitlements that asks for no certificate while a request
\* of the class is outstanding.
ProcessUpdateEntitlements_once_requested(agg, h, cmd) ==
    IF ~(\E p \in agg.parents : p.handle = cmd.parent) THEN Rejected("UnknownParent")
    ELSE IF agg.rc.state = "None"
    THEN Accepted(<<resource_class_added(h, agg.version, cmd.parent),
                    certificate_requested(h, agg.version + 1, NoKey.id + 1, cmd.res)>>)
    ELSE IF cmd.res # agg.rc.cur.res /\ ~agg.rc.requested
    THEN Accepted(<<certificate_requested(h, agg.version, agg.rc.cur.id, cmd.res)>>)
    ELSE Accepted(<<>>)

\* A new class and a request for it when there is none; a request when the
\* entitled resources differ from the current certificate.
ProcessUpdateEntitlements(agg, h, cmd) ==
    IF ~(\E p \in agg.parents : p.handle = cmd.parent) THEN Rejected("UnknownParent")
    ELSE IF agg.rc.state = "None"
    THEN Accepted(<<resource_class_added(h, agg.version, cmd.parent),
                    certificate_requested(h, agg.version + 1, NoKey.id + 1, cmd.res)>>)
    ELSE IF cmd.res # agg.rc.cur.res
    THEN Accepted(<<certificate_requested(h, agg.version, agg.rc.cur.id, cmd.res)>>)
    ELSE Accepted(<<>>)

\* A certificate for the current key becomes the current one; the ROAs it
\* no longer covers are removed in the same command.  A certificate for the
\* requested new key of a roll is kept with that key.
ProcessUpdateReceivedCert(agg, h, cmd) ==
    IF cmd.key = agg.rc.cur.id /\ agg.rc.requested
    THEN LET uncovered == {r \in agg.roas : r.prefix.atom \notin cmd.res}
         IN  Accepted(<<certificate_received(h, agg.version, cmd.key, cmd.res, cmd.now)>>
                      \o IF uncovered = {} THEN <<>>
                         ELSE <<roas_updated(h, agg.version + 1, {},
                                             {r.auth : r \in uncovered})>>)
    ELSE IF cmd.key = agg.rc.new.id /\ agg.rc.state = "RollPending"
    THEN Accepted(<<certificate_received(h, agg.version, cmd.key, cmd.res, cmd.now)>>)
    ELSE Rejected("NoPendingRequest")

\* Every added definition must have its prefix on the current certificate
\* and a max length within the prefix length and the family's address
\* length; the ROAs are then diffed against the authorizations.
ProcessRouteAuthorizationsUpdate(agg, h, cmd) ==
    IF \E a \in cmd.added : a.prefix.atom \notin current_resources(agg)
    THEN Rejected("AuthorisationNotEntitled")
    ELSE IF \E a \in cmd.added :
              LET max == effective_max_length(a.prefix, a.max_length)
              IN  max < a.prefix.len \/ max > addr_bits(a.prefix.fam)
    THEN Rejected("AuthorisationInvalidMaxlength")
    ELSE LET held == {r.auth : r \in agg.roas}
             updated == {make_roa(a, agg.rc.cur) : a \in cmd.added \ held}
             removed == cmd.removed \cap held
         IN  IF updated = {} /\ removed = {} THEN Accepted(<<>>)
             ELSE Accepted(<<roas_updated(h, agg.version, updated, removed)>>)

\* A faulty check that takes any time for long enough.
staged_always(agg, cmd) == TRUE

\* The newest key with a certificate has had it for the staging time.
staged(agg, cmd) == cmd.now - agg.rc.since >= cmd.staging_time

\* KeyRollInit: the class must be active with a current key older than the
\* staging time; a new key is added and a certificate requested for it.
ProcessKeyRollInit(agg, h, cmd) ==
    IF agg.rc.state # "Active" \/ ~staged(agg, cmd)
    THEN Rejected("KeyRollNotAllowed")
    ELSE Accepted(<<keyroll_pending_key_added(h, agg.version, agg.rc.cur.id + 1),
                    certificate_requested(h, agg.version + 1, agg.rc.cur.id + 1,
                                          agg.rc.cur.res)>>)

\* KeyRollActivate: the class must have been in RollNew for the staging
\* time; the new key is activated, the revocation of the old one requested
\* and the ROAs the new certificate covers are made again under the new key.
ProcessKeyRollActivate(agg, h, cmd) ==
    IF agg.rc.state # "RollNew" \/ ~staged(agg, cmd)
    THEN Rejected("KeyRollActivateNotAllowed")
    ELSE LET kept == {r \in agg.roas : r.prefix.atom \in agg.rc.new.res}
         IN  Accepted(
               <<key_event(h, agg.version, "KeyActivated", h, agg.rc.new.id),
                 key_event(h, agg.version + 1, "KeyRevocationRequested", h,
                           agg.rc.cur.id)>>
               \o IF agg.roas = {} THEN <<>>
                  ELSE <<roas_updated(h, agg.version + 2,
                                      {make_roa(r.auth, agg.rc.new) : r \in kept},
                                      {r.auth : r \in agg.roas \ kept})>>)

\* KeyRollFinish: the parent has confirmed the revocation of the old key.
ProcessKeyRollFinish(agg, h, cmd) ==
    IF agg.rc.state # "RollOld" \/ agg.rc.old.id # cmd.key
    THEN Rejected("NoOldKey")
    ELSE Accepted(<<key_event(h, agg.version, "KeyRollFinished", h, cmd.key)>>)

\* RevokeChildKey on the parent: the key must have a certificate.
ProcessRevokeChildKey(agg, h, cmd) ==
    IF ~has_child(agg, cmd.child) THEN Rejected("UnknownChild")
    ELSE IF ~(\E cert \in agg.issued[cmd.child] : cert.key = cmd.key)
    THEN Rejected("NoIssuedCert")
    ELSE Accepted(<<key_event(h, agg.version, "ChildCertificateRevoked",
                              cmd.child, cmd.key)>>)

\* A faulty choice of keys that forgets the keys that no longer publish.
keys_to_publish_current(agg) == publishing_keys(agg)

\* The keys a Publish looks at: those that publish now and those that have
\* objects published from before.
keys_to_publish(agg) ==
    publishing_keys(agg) \cup {o.uri.key : o \in agg.published}

\* One Published event for every key whose publication point changed, in
\* the order of the keys; the TA has the one key and its own event.
RECURSIVE publish_events(_, _, _, _)
publish_events(agg, h, keys, version) ==
    IF keys = {} THEN <<>>
    ELSE LET key   == CHOOSE k \in keys : \A other \in keys : k <= other
             delta == publication_delta(published_for_key(agg, key),
                                        current_objects(agg, key))
         IN  IF is_empty(delta)
             THEN publish_events(agg, h, keys \ {key}, version)
             ELSE <<IF agg.isTa THEN published_ta(h, version, delta)
                    ELSE published(h, version, key, delta)>>
                  \o publish_events(agg, h, keys \ {key}, version + 1)

\* Publish: the publication points are brought up to the current objects;
\* no event when nothing changed.
ProcessPublish(agg, h, cmd) ==
    Accepted(publish_events(agg, h, keys_to_publish(agg), agg.version))

\* Aggregate::process_command: validates the command and returns the events
\* that lead to the new state, or a typed error and no events.
process_command(agg, h, cmd) ==
    CASE cmd.type = "AddChild"     -> ProcessAddChild(agg, h, cmd)
      [] cmd.type = "UpdateChild"  -> ProcessUpdateChild(agg, h, cmd)
      [] cmd.type = "CertifyChild" -> ProcessCertifyChild(agg, h, cmd)
      [] cmd.type = "AddParent"    -> ProcessAddParent(agg, h, cmd)
      [] cmd.type = "UpdateEntitlements" -> ProcessUpdateEntitlements(agg, h, cmd)
      [] cmd.type = "UpdateReceivedCert" -> ProcessUpdateReceivedCert(agg, h, cmd)
      [] cmd.type = "RouteAuthorizationsUpdate" ->
           ProcessRouteAuthorizationsUpdate(agg, h, cmd)
      [] cmd.type = "KeyRollInit"     -> ProcessKeyRollInit(agg, h, cmd)
      [] cmd.type = "KeyRollActivate" -> ProcessKeyRollActivate(agg, h, cmd)
      [] cmd.type = "KeyRollFinish"   -> ProcessKeyRollFinish(agg, h, cmd)
      [] cmd.type = "RevokeChildKey"  -> ProcessRevokeChildKey(agg, h, cmd)
      [] cmd.type = "Publish"         -> ProcessPublish(agg, h, cmd)
      [] OTHER -> Rejected("UnknownCommand")

\* A faulty process_command on a mutable aggregate that applies what it returns.
AggAfterProcessApplied(agg, h, cmd) == apply_all(agg, process_command(agg, h, cmd).events)

\* process_command takes the aggregate by shared reference: the aggregate the
\* caller holds is the same before and after.
AggAfterProcess(agg, h, cmd) == agg

(***************************************************************************)
(* The aggregate store and the threads calling the CaServer facade.        *)
(***************************************************************************)
Listeners == {"queue", "audit"}

VARIABLES
    log,        \* per handle: the committed events, <<>> when absent
    snapshot,   \* per handle: the optional snapshot kept next to the log
    cache,      \* per handle: the in-memory latest aggregate
    lock,       \* per handle: the thread holding the write lock, or "free"
    heard,      \* per listener and handle: the events it was called with
    pc,         \* per thread: where it is in its facade call
    loc,        \* per thread: the locals of its facade call
    publishers, \* per handle: the publisher (base_uri, deactivated), if any
    files,      \* the repository: per URI the content published there
    owner,      \* per URI: the publisher whose delta put the object there
    serial,     \* the RRDP serial
    rrdp_snapshot, \* the RRDP snapshot: per URI the content, if any
    deltas,     \* the RRDP deltas kept, newest first, each (serial, delta)
    accepted,   \* how many publish deltas the repository has accepted
    reply,      \* handle and result of the latest publication server request
    cas,        \* per handle: the latest committed CA, when calls are serialised
    flow,       \* the update_entitlements call under way, between its commits
    outcome,    \* handle, command, error and events of the latest CA command
    now,        \* the time, in the unit of the staging time of a key roll
    pub_agg,    \* the stored publisher the threads publish for: version, objects
    pub_call,   \* per thread: its publish call for that publisher
    event_queue, \* the work items of the EventQueueListener, oldest first
    sent,       \* the calls of publish on the Publication Server, oldest first
    event_run,  \* whether a run of the queue drain is under way
    refresh_run, \* the run of the refresh, if any, and the CAs it has yet to do
    routes,     \* the Routes of a CA: the authorizations, each with its info
    response,   \* status and error code of the latest response of the API
    sync,       \* the latest sync of a publication client: directory, delta, result
    q_lock,     \* the holders of the two RwLocks of the work queue, or "free"
    q_call,     \* per thread: its push_back or pop on the work queue
    q_log       \* the work items pushed and those popped, each oldest first

storeVars == <<log, snapshot, cache, lock, heard>>

\* A faulty listener that files the newest event first.
listen_newest_first(queue, event) == <<event.version>> \o queue

\* EventListener::listen: what a listener was called with, oldest first.
listen(queue, event) == Append(queue, event.version)

threadVars == <<pc, loc>>

pubVars == <<publishers, files, owner, serial, rrdp_snapshot, deltas, accepted, reply>>

caVars == <<cas, flow, outcome, now>>

callVars == <<pub_agg, pub_call>>

mqVars == <<event_queue, sent, event_run, refresh_run>>

routeVars == <<routes>>

apiVars == <<response, sync>>

lockVars == <<q_lock, q_call, q_log>>

\* what the aggregate store and the CaServer calls leave alone
outsideStore == <<pubVars, caVars, callVars, mqVars, routeVars, apiVars, lockVars>>

\* what the Publication Server leaves alone; the API renders its results
outsidePub == <<storeVars, threadVars, caVars, callVars, mqVars, routeVars, lockVars>>

\* what the commands on the committed CAs leave alone; the queue hears of
\* their events
outsideCa == <<storeVars, threadVars, pubVars, callVars, routeVars, apiVars, lockVars>>

\* what the concurrent publish calls leave alone
outsideCalls ==
    <<storeVars, threadVars, pubVars, caVars, mqVars, routeVars, apiVars, lockVars>>

\* what a push_back or pop on the work queue leaves alone
outsideLocks == <<storeVars, threadVars, pubVars, caVars, callVars, routeVars, apiVars>>

\* what the scheduler leaves alone when it drains the queue
outsideQueue ==
    <<storeVars, threadVars, pubVars, caVars, callVars, routeVars, apiVars, lockVars>>

vars ==
    <<storeVars, threadVars, pubVars, caVars, callVars, mqVars, routeVars, apiVars, lockVars>>

\* loaded: the version of the aggregate the call loaded (0: none loaded),
\* updated: whether the call got as far as update()
NoCall == [op |-> "none", handle |-> ta_handle, loaded |-> 0, agg |-> NoAgg,
           cmd |-> NoCmd, events |-> <<>>, sent |-> 0, updated |-> FALSE,
           result |-> "none"]

\* A faulty has() that finds no handle.
has_none(h) == FALSE

\* AggregateStore::has
has(h) == log[h] # <<>>

\* Events of the log from the given version on.
EventsFrom(h, version) == SubSeq(log[h], version + 1, Len(log[h]))

\* What loading from disk yields: the snapshot, if there is one, brought up
\* to date with the events after it; otherwise init and all later events.
LoadFromDisk(h) ==
    LET base == IF snapshot[h] # NoAgg THEN snapshot[h] ELSE init(Head(log[h]))
    IN  apply_all(base, EventsFrom(h, base.version))

\* AggregateStore::get_latest, for a handle the store has
get_latest(h) == IF cache[h] # NoAgg THEN cache[h] ELSE LoadFromDisk(h)

\* The version update() compares the expected version with.
StoreVersion(h) == get_latest(h).version

\* A faulty caller that hands update() the version it finds in the store.
ExpectedVersionFresh(t) == StoreVersion(loc[t].handle)

\* The facade hands update() the aggregate it loaded before process_command.
ExpectedVersion(t) == loc[t].agg.version

storeInit ==
    /\ log = [h \in Handles |-> <<>>]
    /\ snapshot = [h \in Handles |-> NoAgg]
    /\ cache = [h \in Handles |-> NoAgg]
    /\ lock = [h \in Handles |-> "free"]
    /\ heard = [l \in Listeners |-> [h \in Handles |-> <<>>]]
    /\ pc = [t \in Threads |-> "idle"]
    /\ loc = [t \in Threads |-> NoCall]

\* init_ta and init_ca take the server exclusively (&mut self).
Exclusive(t) == \A u \in Threads \ {t} : pc[u] \in {"idle", "done"}

Finish(t, op, result) ==
    /\ pc' = [pc EXCEPT ![t] = "done"]
    /\ loc' = [loc EXCEPT ![t] = [NoCall EXCEPT !.op = op, !.result = result,
                                                !.loaded = loc[t].loaded,
                                                !.updated = pc[t] \in {"locked", "notify"}]]

\* AggregateStore::add
add(event) ==
    /\ log' = [log EXCEPT ![event.handle] = <<event>>]
    /\ cache' = [cache EXCEPT ![event.handle] = init(event)]

init_ta(t) ==
    /\ pc[t] = "idle"
    /\ Exclusive(t)
    /\ IF has(ta_handle)
       THEN /\ Finish(t, "init_ta", "TrustAnchorInitialisedError")
            /\ UNCHANGED <<storeVars, outsideStore>>
       ELSE /\ add(IniDet_init_ta(ta_handle))
            /\ Finish(t, "init_ta", "ok")
            /\ UNCHANGED <<snapshot, lock, heard, outsideStore>>

init_ca(t, handle, token) ==
    /\ pc[t] = "idle"
    /\ Exclusive(t)
    /\ IF has(handle)
       THEN /\ Finish(t, "init_ca", "DuplicateCa")
            /\ UNCHANGED <<storeVars, outsideStore>>
       ELSE /\ add(IniDet_init(handle, token))
            /\ Finish(t, "init_ca", "ok")
            /\ UNCHANGED <<snapshot, lock, heard, outsideStore>>

\* A facade call on the trust anchor starts with get_trust_anchor() and
\* builds its command.
StartOnTa(t, op, cmd) ==
    /\ pc[t] = "idle"
    /\ IF ~has(ta_handle)
       THEN /\ Finish(t, op, "TrustAnchorNotInitialisedError")
            /\ UNCHANGED <<storeVars, outsideStore>>
       ELSE /\ get_latest(ta_handle).version <= MaxVersion
            /\ cache' = [cache EXCEPT ![ta_handle] = get_latest(ta_handle)]
            /\ pc' = [pc EXCEPT ![t] = "loaded"]
            /\ loc' = [loc EXCEPT ![t] = [NoCall EXCEPT !.op = op,
                                                        !.loaded = get_latest(ta_handle).version,
                                                        !.agg = get_latest(ta_handle),
                                                        !.cmd = cmd]]
            /\ UNCHANGED <<log, snapshot, lock, heard, outsideStore>>

ta_add_child(t, child, token, res) ==
    StartOnTa(t, "ta_add_child", add_child(child, token, res))

ta_update_child(t, child, token, res) ==
    StartOnTa(t, "ta_update_child", update_child(child, token, res))

\* issue() for a child of the trust anchor; any other parent is not implemented.
issue(t, parent, child, token, res) ==
    /\ parent = ta_handle
    /\ StartOnTa(t, "issue", certify_child(child, token, NoKey.id + 1, res))

\* let events = ta.process_command(cmd)?;
\* A call whose command asks for no change returns without an update, as
\* ta_publish does.
Process(t) ==
    /\ pc[t] = "loaded"
    /\ LET out == process_command(loc[t].agg, loc[t].handle, loc[t].cmd)
           agg == AggAfterProcess(loc[t].agg, loc[t].handle, loc[t].cmd)
       IN  IF out.err # "none"
           THEN Finish(t, loc[t].op, out.err)
           ELSE IF out.events = <<>>
           THEN Finish(t, loc[t].op, "ok")
           ELSE /\ pc' = [pc EXCEPT ![t] = "processed"]
                /\ loc' = [loc EXCEPT ![t].agg = agg, ![t].events = out.events]
    /\ UNCHANGED <<storeVars, outsideStore>>

\* AggregateStore::update, step 1: take the write lock of the handle.
UpdateLock(t) ==
    /\ pc[t] = "processed"
    /\ lock[loc[t].handle] = "free"
    /\ lock' = [lock EXCEPT ![loc[t].handle] = t]
    /\ pc' = [pc EXCEPT ![t] = "locked"]
    /\ UNCHANGED <<log, snapshot, cache, heard, loc, outsideStore>>

\* update, step 2: compare versions; reject, or write the events, apply
\* them to the in-memory aggregate and keep that as the latest.
UpdateCommit(t) ==
    /\ pc[t] = "locked"
    /\ LET h == loc[t].handle
       IN  IF StoreVersion(h) # ExpectedVersion(t)
           THEN /\ lock' = [lock EXCEPT ![h] = "free"]
                /\ Finish(t, loc[t].op, "ConcurrentModification")
                /\ UNCHANGED <<log, snapshot, cache, heard, outsideStore>>
           ELSE /\ log' = [log EXCEPT ![h] = @ \o loc[t].events]
                /\ cache' = [cache EXCEPT ![h] = apply_all(loc[t].agg, loc[t].events)]
                /\ pc' = [pc EXCEPT ![t] = "notify"]
                /\ UNCHANGED <<snapshot, lock, heard, loc, outsideStore>>

\* update, step 3: every listener is called with the next event.
UpdateNotify(t) ==
    /\ pc[t] = "notify"
    /\ loc[t].sent < Len(loc[t].events)
    /\ LET event == loc[t].events[loc[t].sent + 1]
       IN  heard' = [l \in Listeners |->
                        [heard[l] EXCEPT ![loc[t].handle] = listen(@, event)]]
    /\ loc' = [loc EXCEPT ![t].sent = @ + 1]
    /\ UNCHANGED <<log, snapshot, cache, lock, pc, outsideStore>>

\* update, step 4: release the lock and return the new aggregate.
UpdateRelease(t) ==
    /\ pc[t] = "notify"
    /\ loc[t].sent = Len(loc[t].events)
    /\ lock' = [lock EXCEPT ![loc[t].handle] = "free"]
    /\ Finish(t, loc[t].op, "ok")
    /\ UNCHANGED <<log, snapshot, cache, heard, outsideStore>>

\* The call has returned; the thread is free for the next call.
Return(t) ==
    /\ pc[t] = "done"
    /\ pc' = [pc EXCEPT ![t] = "idle"]
    /\ loc' = [loc EXCEPT ![t] = NoCall]
    /\ UNCHANGED <<storeVars, outsideStore>>

\* The store writes the latest aggregate as the snapshot of the handle.
SaveSnapshot(h) ==
    /\ cache[h] # NoAgg
    /\ Len(log[h]) > 1
    /\ lock[h] = "free"
    /\ snapshot[h] # cache[h]
    /\ snapshot' = [snapshot EXCEPT ![h] = cache[h]]
    /\ UNCHANGED <<log, cache, lock, heard, pc, loc, outsideStore>>

\* The process restarts between calls; everything held in memory is gone.
Restart ==
    /\ \A t \in Threads : pc[t] = "idle"
    /\ \E h \in Handles : cache[h] # NoAgg
    /\ cache' = [h \in Handles |-> NoAgg]
    /\ UNCHANGED <<log, snapshot, lock, heard, pc, loc, outsideStore>>


(***************************************************************************)
(* The Publication Server: publishers, their jails and the repository.     *)
(* URIs are paths below the rsync host, one element per segment.           *)
(***************************************************************************)
\* most atoms in one publish delta
MaxAtoms == 2

\* highest RRDP serial a publication still starts from
MaxSerial == 2

\* most RRDP deltas kept (the configured bound)
MaxDeltas == 2

PubHandles == {"alice", "bob"}

\* ConfigDefaults::rsync_base
rsync_base == <<"repo">>

BaseUris == {<<"repo", "alice">>, <<"repo", "bob">>, <<"repo", "alice", "sub">>,
             <<"module", "alice">>}

Uris == {<<"repo", "alice", "a.txt">>, <<"repo", "alice", "sub", "b.txt">>,
         <<"repo", "bob", "a.txt">>}

Contents == {"a", "b"}

NoFile == "none"

NoPublisher == [none |-> TRUE]

\* uri lies at or below base
is_under(uri, base) ==
    Len(base) <= Len(uri) /\ SubSeq(uri, 1, Len(base)) = base

overlap_only_if_equal(a, b) == a = b

\* two jails overlap when one lies at or below the other
overlap(a, b) == is_under(a, b) \/ is_under(b, a)

PublishAtoms == {Publish(u, c) : u \in Uris, c \in Contents}

\* The content whose hash the update and withdraw atoms name as the old
\* object; it matches or not, depending on what is published at the URI.
OldContents == {"a"}

\* An update replaces the object by the other content.
UpdateAtoms == {Update(u, c, hash(o)) : u \in Uris, c \in Contents \ OldContents,
                                        o \in OldContents}

WithdrawAtoms == {Withdraw(u, hash(o)) : u \in Uris, o \in OldContents}

OnePerUri(atoms) == \A a, b \in atoms : a.uri = b.uri => a = b

\* requests::PublishDelta: at most MaxAtoms atoms, and at most one atom of a
\* kind for a URI, so that the order of the atoms of a kind is immaterial.
RECURSIVE AtomSets(_)
AtomSets(n) ==
    IF n = 0 THEN {{}}
    ELSE LET smaller == AtomSets(n - 1)
         IN  smaller \cup {x \cup {a} : x \in smaller,
                                         a \in PublishAtoms \cup UpdateAtoms \cup WithdrawAtoms}

PublishDelta(atoms) ==
    [publishes |-> atoms \cap PublishAtoms, updates |-> atoms \cap UpdateAtoms,
     withdraws |-> atoms \cap WithdrawAtoms]

PublishDeltas ==
    {PublishDelta(x) : x \in {y \in AtomSets(MaxAtoms) :
        /\ y # {}
        /\ OnePerUri(y \cap PublishAtoms)
        /\ OnePerUri(y \cap UpdateAtoms)
        /\ OnePerUri(y \cap WithdrawAtoms)}}

Reply(handle, result) == [handle |-> handle, result |-> result]

get_publisher(handle) == publishers[handle]

\* The jail handle_delta hands the repository: the rsync base of the server.
base_uri_of_server(publisher) == rsync_base

\* publisher.base_uri()
base_uri(publisher) == publisher.base_uri

\* The URIs of all atoms of a delta.
delta_uris(delta) ==
    {a.uri : a \in delta.publishes \cup delta.updates \cup delta.withdraws}

has_object(fs, uri, old) == fs[uri] # NoFile /\ hash(fs[uri]) = old

\* What the verification of a delta against the files and the jail can
\* report: a URI outside the jail first, then any of the objects that are
\* in the way or missing; "ok" when there is nothing to report.
verify(fs, delta, base) ==
    LET present == {a \in delta.publishes : fs[a.uri] # NoFile}
        missing == {a \in delta.updates \cup delta.withdraws :
                       ~has_object(fs, a.uri, a.hash)}
    IN  IF \E u \in delta_uris(delta) : ~is_under(u, base) THEN {"UriOutsideJail"}
        ELSE IF present = {} /\ missing = {} THEN {"ok"}
        ELSE {"ObjectAlreadyPresent" : a \in present}
             \cup {"NoObjectForHashAndOrUri" : a \in missing}

\* The files after a delta: publishes and updates put their content in
\* place, withdraws remove the object.
update_files(fs, delta) ==
    [u \in Uris |->
        IF \E a \in delta.withdraws : a.uri = u THEN NoFile
        ELSE IF \E a \in delta.updates : a.uri = u
             THEN (CHOOSE a \in delta.updates : a.uri = u).content
        ELSE IF \E a \in delta.publishes : a.uri = u
             THEN (CHOOSE a \in delta.publishes : a.uri = u).content
        ELSE fs[u]]

\* A faulty Repository::publish that goes on after a failed verification.
Repository_publish_unverified(fs, delta, base, error) ==
    [result |-> error, files |-> update_files(fs, delta)]

\* Repository::publish: self.fs.publish(update, base_uri)?; the error is
\* the outcome of the verification, "ok" when it found nothing.
Repository_publish(fs, delta, base, error) ==
    IF error # "ok" THEN [result |-> error, files |-> fs]
    ELSE [result |-> "ok", files |-> update_files(fs, delta)]

\* The size of a delta and of a snapshot, in elements: an atom counts as
\* much as an object.
delta_size(delta) ==
    Cardinality(delta.publishes) + Cardinality(delta.updates)
        + Cardinality(delta.withdraws)

snapshot_size(snap) == Cardinality({u \in Uris : snap[u] # NoFile})

RECURSIVE deltas_size(_)
deltas_size(ds) ==
    IF ds = <<>> THEN 0 ELSE delta_size(Head(ds).delta) + deltas_size(Tail(ds))

\* A faulty pruning that looks at the number of deltas only.
RECURSIVE prune_by_count(_, _)
prune_by_count(ds, snap) ==
    IF Len(ds) > MaxDeltas THEN prune_by_count(SubSeq(ds, 1, Len(ds) - 1), snap)
    ELSE ds

\* Deltas are dropped from the tail, the oldest first, while they are
\* together larger than the snapshot or more than the bound.
RECURSIVE prune(_, _)
prune(ds, snap) ==
    IF ds # <<>> /\ (deltas_size(ds) > snapshot_size(snap) \/ Len(ds) > MaxDeltas)
    THEN prune(SubSeq(ds, 1, Len(ds) - 1), snap)
    ELSE ds

\* The snapshot is recomputed from the previous snapshot and the delta.
snapshot_after(snap, delta) == update_files(snap, delta)

\* RrdpServer::publish: the serial goes up by one, the delta is filed under
\* the new serial, the snapshot recomputed and the deltas pruned.
RrdpServer_publish(rrdp, delta) ==
    LET snap == snapshot_after(rrdp.snapshot, delta)
    IN  [serial   |-> rrdp.serial + 1,
         snapshot |-> snap,
         deltas   |-> prune(<<[serial |-> rrdp.serial + 1, delta |-> delta]>>
                            \o rrdp.deltas, snap)]

\* A faulty Repository::publish that goes on to the RRDP server whatever
\* the file store said.
rrdp_after_any_result(result, rrdp, delta) == RrdpServer_publish(rrdp, delta)

\* Repository::publish: self.rrdp.publish(update) is reached when
\* self.fs.publish(update, base_uri)? did not return an error.
rrdp_after(result, rrdp, delta) ==
    IF result = "ok" THEN RrdpServer_publish(rrdp, delta) ELSE rrdp

\* Repository::list: the files under a base URI with their hashes.
Repository_list_all(fs, base) ==
    {<<u, hash(fs[u])>> : u \in {v \in Uris : fs[v] # NoFile}}

Repository_list(fs, base) ==
    {<<u, hash(fs[u])>> : u \in {v \in Uris : fs[v] # NoFile /\ is_under(v, base)}}

pubInit ==
    /\ publishers = [p \in PubHandles |-> NoPublisher]
    /\ files = [u \in Uris |-> NoFile]
    /\ owner = [u \in Uris |-> "nobody"]
    /\ serial = 0
    /\ rrdp_snapshot = [u \in Uris |-> NoFile]
    /\ deltas = <<>>
    /\ accepted = 0
    /\ reply = Reply("nobody", "none")

\* PublisherStore::add_publisher: the outcome for a handle and a base URI
add_publisher_result(handle, base) ==
    IF publishers[handle] # NoPublisher THEN "DuplicatePublisher"
    ELSE IF \/ ~is_under(base, rsync_base)
            \/ \E p \in PubHandles :
                  publishers[p] # NoPublisher /\ overlap(base, publishers[p].base_uri)
    THEN "InvalidBaseUri"
    ELSE "ok"

\* KrillServer::add_publisher
add_publisher(handle, base) ==
    /\ reply' = Reply(handle, add_publisher_result(handle, base))
    /\ publishers' = IF add_publisher_result(handle, base) = "ok"
                     THEN [publishers EXCEPT
                              ![handle] = [base_uri |-> base, deactivated |-> FALSE]]
                     ELSE publishers
    /\ UNCHANGED <<files, owner, serial, rrdp_snapshot, deltas, accepted, outsidePub>>

\* The RRDP state as RrdpServer holds it.
rrdp_state == [serial |-> serial, snapshot |-> rrdp_snapshot, deltas |-> deltas]

\* The delta that goes with a deactivation: a withdraw for every object of
\* the publisher.
implicit_delta(handle) ==
    [publishes |-> {}, updates |-> {},
     withdraws |-> {Withdraw(u, hash(files[u])) : u \in {v \in Uris : owner[v] = handle}}]

\* A faulty deactivation that marks the publisher and leaves its objects
\* where they are.
deactivate_publisher_keeps_objects(handle) ==
    /\ IF publishers[handle] = NoPublisher
       THEN /\ reply' = Reply(handle, "UnknownPublisher")
            /\ UNCHANGED publishers
       ELSE /\ publishers' = [publishers EXCEPT ![handle].deactivated = TRUE]
            /\ reply' = Reply(handle, "ok")
    /\ UNCHANGED <<files, owner, serial, rrdp_snapshot, deltas, accepted, outsidePub>>

\* Deactivating a publisher withdraws all its objects, in the RRDP state
\* too when there are any.
deactivate_publisher(handle) ==
    /\ IF publishers[handle] = NoPublisher
       THEN /\ reply' = Reply(handle, "UnknownPublisher")
            /\ UNCHANGED <<publishers, files, owner, serial, rrdp_snapshot, deltas,
                           accepted>>
       ELSE /\ delta_size(implicit_delta(handle)) > 0 => serial <= MaxSerial
            /\ publishers' = [publishers EXCEPT ![handle].deactivated = TRUE]
            /\ files' = [u \in Uris |-> IF owner[u] = handle THEN NoFile ELSE files[u]]
            /\ owner' = [u \in Uris |-> IF owner[u] = handle THEN "nobody" ELSE owner[u]]
            /\ \E rrdp \in {IF delta_size(implicit_delta(handle)) > 0
                             THEN RrdpServer_publish(rrdp_state, implicit_delta(handle))
                             ELSE rrdp_state} :
                  /\ serial' = rrdp.serial
                  /\ rrdp_snapshot' = rrdp.snapshot
                  /\ deltas' = rrdp.deltas
            /\ accepted' = IF delta_size(implicit_delta(handle)) > 0
                           THEN accepted + 1 ELSE accepted
            /\ reply' = Reply(handle, "ok")
    /\ UNCHANGED outsidePub

\* KrillServer::handle_delta: the possible results with the files they leave
handle_delta_outcomes(handle, delta) ==
    IF get_publisher(handle) = NoPublisher
    THEN {[result |-> "UnknownPublisher", files |-> files]}
    ELSE IF get_publisher(handle).deactivated
    THEN {[result |-> "Deactivated", files |-> files]}
    ELSE LET base == base_uri(get_publisher(handle))
         IN  {Repository_publish(files, delta, base, verdict) :
                 verdict \in verify(files, delta, base)}

\* KrillServer::handle_list
handle_list(handle) ==
    IF get_publisher(handle) = NoPublisher
    THEN [result |-> "UnknownPublisher", list |-> {}]
    ELSE [result |-> "ok",
          list |-> Repository_list(files, base_uri(get_publisher(handle)))]

handle_delta(handle, delta) ==
    /\ serial <= MaxSerial
    /\ \E out \in handle_delta_outcomes(handle, delta) :
          /\ files' = out.files
          /\ owner' = [u \in Uris |->
                         IF out.files[u] = files[u] THEN owner[u]
                         ELSE IF out.files[u] = NoFile THEN "nobody"
                         ELSE handle]
          /\ \E rrdp \in {rrdp_after(out.result, rrdp_state, delta)} :
                /\ serial' = rrdp.serial
                /\ rrdp_snapshot' = rrdp.snapshot
                /\ deltas' = rrdp.deltas
          /\ accepted' = IF out.result = "ok" THEN accepted + 1 ELSE accepted
          /\ reply' = Reply(handle, out.result)
    /\ UNCHANGED <<publishers, outsidePub>>

\* What self.rrdp.publish(update) can return: Ok or an rrdp::Error.
RrdpResults == {"ok", "RrdpError"}

\* KrillServer::handle_delta with the result of the RRDP server as an input:
\* Repository::publish calls self.fs.publish(update, base_uri)? and then
\* self.rrdp.publish(update)?, whose error it returns.  The RRDP state a
\* failed rrdp.publish leaves is taken to be the one before the call.
handle_delta_rrdp(handle, delta, rrdp_result) ==
    /\ serial <= MaxSerial
    /\ \E out \in handle_delta_outcomes(handle, delta) :
          /\ files' = out.files
          /\ owner' = [u \in Uris |->
                         IF out.files[u] = files[u] THEN owner[u]
                         ELSE IF out.files[u] = NoFile THEN "nobody"
                         ELSE handle]
          /\ \E rrdp \in {IF rrdp_result = "ok"
                           THEN rrdp_after(out.result, rrdp_state, delta)
                           ELSE rrdp_state} :
                /\ serial' = rrdp.serial
                /\ rrdp_snapshot' = rrdp.snapshot
                /\ deltas' = rrdp.deltas
          /\ accepted' = IF out.result = "ok" /\ rrdp_result = "ok"
                         THEN accepted + 1 ELSE accepted
          /\ reply' = Reply(handle, IF out.result = "ok" THEN rrdp_result
                                    ELSE out.result)
    /\ UNCHANGED <<publishers, outsidePub>>

(***************************************************************************)
(* The API in front of the server: every handler renders the result of the *)
(* server call as an HTTP response.  An error is the path of its variants, *)
(* from the Error of the endpoints down to the error of the component.     *)
(***************************************************************************)
VerificationErrors == {<<"NoObjectForHashAndOrUri">>, <<"ObjectAlreadyPresent">>,
                       <<"UriOutsideJail">>}

PublisherErrors ==
    {<<"Deactivated">>} \cup {<<"VerificationError">> \o e : e \in VerificationErrors}

RrdpServerErrors == {<<"IoError">>}

PubdErrors ==
    {<<"IoError">>, <<"InvalidBaseUri">>, <<"InvalidHandle">>, <<"DuplicatePublisher">>,
     <<"UnknownPublisher">>, <<"ConcurrentModification">>, <<"AggregateStoreError">>}
    \cup {<<"PublisherError">> \o e : e \in PublisherErrors}
    \cup {<<"RrdpServerError">> \o e : e \in RrdpServerErrors}

ServerErrors ==
    {<<"IoError">>, <<"ProxyServer">>, <<"SignerError">>, <<"CaServerError">>,
     <<"PubClientError">>}
    \cup {<<"PubServer">> \o e : e \in PubdErrors}

ApiErrors ==
    {<<"JsonError">>, <<"CmsError">>, <<"PublisherRequestError">>}
    \cup {<<"ServerError">> \o e : e \in ServerErrors}

\* impl ErrorToStatus for RrdpServerError
RrdpServerError_status(e) ==
    CASE e[1] = "IoError" -> "INTERNAL_SERVER_ERROR"

\* impl ErrorToStatus for PublisherError
PublisherError_status(e) ==
    CASE e[1] = "Deactivated" -> "FORBIDDEN"
      [] e[1] = "VerificationError" -> "FORBIDDEN"

\* impl ErrorToStatus for krill_pubd::Error
krill_pubd_Error_status(e) ==
    CASE e[1] = "IoError" -> "INTERNAL_SERVER_ERROR"
      [] e[1] = "InvalidBaseUri" -> "BAD_REQUEST"
      [] e[1] = "InvalidHandle" -> "BAD_REQUEST"
      [] e[1] = "DuplicatePublisher" -> "BAD_REQUEST"
      [] e[1] = "UnknownPublisher" -> "FORBIDDEN"
      [] e[1] = "ConcurrentModification" -> "BAD_REQUEST"
      [] e[1] = "PublisherError" -> PublisherError_status(Tail(e))
      [] e[1] = "RrdpServerError" -> RrdpServerError_status(Tail(e))
      [] e[1] = "AggregateStoreError" -> "INTERNAL_SERVER_ERROR"

\* impl ErrorToStatus for krillserver::Error
krillserver_Error_status(e) ==
    CASE e[1] = "IoError" -> "INTERNAL_SERVER_ERROR"
      [] e[1] = "PubServer" -> krill_pubd_Error_status(Tail(e))
      [] e[1] = "ProxyServer" -> "INTERNAL_SERVER_ERROR"
      [] e[1] = "SignerError" -> "INTERNAL_SERVER_ERROR"
      [] e[1] = "CaServerError" -> "INTERNAL_SERVER_ERROR"
      [] e[1] = "PubClientError" -> "INTERNAL_SERVER_ERROR"

\* impl ErrorToStatus for Error
Error_status(e) ==
    CASE e[1] = "ServerError" -> krillserver_Error_status(Tail(e))
      [] e[1] = "JsonError" -> "BAD_REQUEST"
      [] e[1] = "CmsError" -> "BAD_REQUEST"
      [] e[1] = "PublisherRequestError" -> "BAD_REQUEST"

\* impl ToErrorCode for RrdpServerError
RrdpServerError_code(e) ==
    CASE e[1] = "IoError" -> "Persistence"

\* impl ToErrorCode for VerificationError
VerificationError_code(e) ==
    CASE e[1] = "NoObjectForHashAndOrUri" -> "NoObjectForHashAndOrUri"
      [] e[1] = "ObjectAlreadyPresent" -> "ObjectAlreadyPresent"
      [] e[1] = "UriOutsideJail" -> "UriOutsideJail"

\* impl ToErrorCode for PublisherError
PublisherError_code(e) ==
    CASE e[1] = "Deactivated" -> "PublisherDeactivated"
      [] e[1] = "VerificationError" -> VerificationError_code(Tail(e))

\* impl ToErrorCode for krill_pubd::Error
krill_pubd_Error_code(e) ==
    CASE e[1] = "IoError" -> "Persistence"
      [] e[1] = "InvalidBaseUri" -> "InvalidBaseUri"
      [] e[1] = "InvalidHandle" -> "InvalidHandle"
      [] e[1] = "DuplicatePublisher" -> "DuplicateHandle"
      [] e[1] = "UnknownPublisher" -> "UnknownPublisher"
      [] e[1] = "ConcurrentModification" -> "ConcurrentModification"
      [] e[1] = "PublisherError" -> PublisherError_code(Tail(e))
      [] e[1] = "RrdpServerError" -> RrdpServerError_code(Tail(e))
      [] e[1] = "AggregateStoreError" -> "Persistence"

\* impl ToErrorCode for krillserver::Error
krillserver_Error_code(e) ==
    CASE e[1] = "IoError" -> "Persistence"
      [] e[1] = "PubServer" -> krill_pubd_Error_code(Tail(e))
      [] e[1] = "ProxyServer" -> "ProxyError"
      [] e[1] = "SignerError" -> "SigningError"
      [] e[1] = "CaServerError" -> "CaServerError"
      [] e[1] = "PubClientError" -> "PubClientServerError"

\* impl ToErrorCode for Error
Error_code(e) ==
    CASE e[1] = "ServerError" -> krillserver_Error_code(Tail(e))
      [] e[1] = "JsonError" -> "InvalidJson"
      [] e[1] = "CmsError" -> "InvalidCms"
      [] e[1] = "PublisherRequestError" -> "InvalidPublisherRequest"

\* No file in the directory of a client; no sync yet.
NoDir == [u \in Uris |-> NoFile]

NoSync == [handle |-> "nobody", dir |-> NoDir,
           delta |-> [publishes |-> {}, updates |-> {}, withdraws |-> {}],
           result |-> "none"]

Response(status, code) == [status |-> status, code |-> code]

apiInit == response = Response("none", "none") /\ sync = NoSync

api_ok == Response("OK", "none")

\* server_error: the response is built from the status and the code of
\* the error.
server_error(error) == Response(Error_status(error), Error_code(error))

\* The result of a call on the Publication Server as the krillserver hands
\* it to the handler: Ok(()) or the error of the Publication Server.
Ok == <<>>

ServerResult(result) ==
    CASE result = "ok" -> Ok
      [] result \in {"InvalidBaseUri", "DuplicatePublisher", "UnknownPublisher"}
            -> <<"PubServer", result>>
      [] result = "Deactivated" -> <<"PubServer", "PublisherError", "Deactivated">>
      [] result \in {"NoObjectForHashAndOrUri", "ObjectAlreadyPresent", "UriOutsideJail"}
            -> <<"PubServer", "PublisherError", "VerificationError", result>>

render_empty_res(res) ==
    IF res = Ok THEN api_ok ELSE server_error(<<"ServerError">> \o res)

\* endpoints::add_publisher
endpoints_add_publisher(handle, base) ==
    /\ add_publisher(handle, base)
    /\ response' = render_empty_res(ServerResult(reply'.result))
    /\ UNCHANGED sync

\* endpoints::deactivate_publisher
endpoints_deactivate_publisher(handle) ==
    /\ deactivate_publisher(handle)
    /\ response' = render_empty_res(ServerResult(reply'.result))
    /\ UNCHANGED sync

\* endpoints::handle_delta
endpoints_handle_delta(handle, delta) ==
    /\ handle_delta(handle, delta)
    /\ response' = render_empty_res(ServerResult(reply'.result))
    /\ UNCHANGED sync

\* A request that fails before the server changes anything: the body does
\* not parse, or the server or a component below it returns the error.
RequestFails(error) ==
    /\ response' = server_error(error)
    /\ UNCHANGED <<pubVars, outsidePub, sync>>

(***************************************************************************)
(* The publication client: a sync lists what the server has for the        *)
(* publisher, derives the delta that turns it into the content of the      *)
(* local directory, and sends the delta.                                   *)
(***************************************************************************)
\* file::crawl_incl_rsync_base: the files of the directory, each with its
\* URI under the rsync base and its content.
crawl_incl_rsync_base(dir) ==
    {[uri |-> u, content |-> dir[u]] : u \in {v \in Uris : dir[v] # NoFile}}

\* The directories a client of the publisher can have: all files lie under
\* the rsync base of the publisher.
Dirs(base) ==
    {dir \in [Uris -> Contents \cup {NoFile}] :
        \A u \in Uris : dir[u] # NoFile => is_under(u, base)}

\* A faulty create_delta that publishes every file on disk anew.
create_delta_publish_all(list_reply, current) ==
    [publishes |-> {Publish(f.uri, f.content) : f \in current},
     updates   |-> {},
     withdraws |-> {Withdraw(p[1], p[2]) :
                      p \in {q \in list_reply : \A c \in current : c.uri # q[1]}}]

\* pubc::create_delta: a withdraw for what the server lists and the disk
\* does not have; for a file on disk a publish when the server does not
\* list its URI, an update when it lists it with another hash.
create_delta(list_reply, current) ==
    [publishes |-> {Publish(f.uri, f.content) :
                      f \in {g \in current : \A p \in list_reply : p[1] # g.uri}},
     updates   |-> UNION {{Update(f.uri, f.content, p[2]) :
                             p \in {q \in list_reply :
                                       q[1] = f.uri /\ q[2] # hash(f.content)}} :
                          f \in current},
     withdraws |-> {Withdraw(p[1], p[2]) :
                      p \in {q \in list_reply : \A c \in current : c.uri # q[1]}}]

\* A sync of the directory of a publisher: list, create_delta, publish.
sync_dir(handle, dir) ==
    /\ publishers[handle] # NoPublisher
    /\ \E delta \in {create_delta(handle_list(handle).list, crawl_incl_rsync_base(dir))} :
          /\ handle_delta(handle, delta)
          /\ sync' = [handle |-> handle, dir |-> dir, delta |-> delta,
                      result |-> reply'.result]
    /\ UNCHANGED response

(***************************************************************************)
(* The CaServer on the committed CAs.  A facade call that loads, processes *)
(* and commits once is one step; update_entitlements commits on the child, *)
(* on the parent and on the child again, and is one step per commit.       *)
(***************************************************************************)
NoFlow == [step |-> "idle", handle |-> ta_handle, child |-> NoAgg, token |-> "tok1",
           key |-> NoKey.id, res |-> {}]

Outcome(handle, type, err, events) ==
    [handle |-> handle, type |-> type, err |-> err, events |-> events]

caInit ==
    /\ cas = [h \in Handles |-> NoAgg]
    /\ flow = NoFlow
    /\ outcome = Outcome("none", "None", "none", <<>>)
    /\ now = 0

\* A faulty admin API that manages the children of any CA.
AdminTargets_any == Handles

\* The CAs whose children the admin API manages: the trust anchor only.
AdminTargets == {ta_handle}

\* The CA after get_latest, process_command and update with the events.
AfterCommand(h, cmd) == apply_all(cas[h], process_command(cas[h], h, cmd).events)

Commit(h, cmd) ==
    /\ cas[h] # NoAgg
    /\ cas' = [cas EXCEPT ![h] = AfterCommand(h, cmd)]
    /\ LET r == process_command(cas[h], h, cmd)
       IN  outcome' = Outcome(h, cmd.type, r.err, r.events)

Command(h, cmd) ==
    /\ cas[h] # NoAgg
    /\ cas[h].version <= MaxCaVersion
    /\ Commit(h, cmd)

CaInit(h, event) ==
    /\ IF cas[h] # NoAgg
       THEN /\ outcome' = Outcome(h, "Init", "DuplicateCa", <<>>)
            /\ UNCHANGED cas
       ELSE /\ cas' = [cas EXCEPT ![h] = init(event)]
            /\ outcome' = Outcome(h, "Init", "none", <<event>>)
    /\ UNCHANGED <<flow, now, outsideCa>>

CaAddChild(target, child, token, res) ==
    /\ Command(target, add_child(child, token, res))
    /\ UNCHANGED <<flow, now, outsideCa>>

CaUpdateChild(target, child, token, res) ==
    /\ Command(target, update_child(child, token, res))
    /\ UNCHANGED <<flow, now, outsideCa>>

\* ca_add_parent: the command, then update_entitlements for the CA.
CaAddParent(h, parent, token) ==
    /\ flow.step = "idle"
    /\ Command(h, add_parent(parent, token))
    /\ flow' = IF process_command(cas[h], h, add_parent(parent, token)).err = "none"
               THEN [NoFlow EXCEPT !.step = "entitle", !.handle = h]
               ELSE flow
    /\ UNCHANGED <<now, outsideCa>>

\* CertAuth::list: the entitlement of a child that shows its token.
list(agg, child, token) ==
    IF ~has_child(agg, child) THEN [err |-> "UnknownChild", res |-> {}]
    ELSE IF agg.children[child].token # token THEN [err |-> "Unauthorized", res |-> {}]
    ELSE [err |-> "none", res |-> agg.children[child].res]

\* A faulty update_entitlements that goes on to issue() whether or not the
\* child had events to commit.
CaEntitlements_always_issue(h) ==
    /\ flow.step = "idle" \/ (flow.step = "entitle" /\ flow.handle = h)
    /\ cas[h] # NoAgg /\ cas[ta_handle] # NoAgg
    /\ ~cas[h].isTa /\ cas[h].parents # {}
    /\ flow.step = "idle" => cas[h].version <= MaxFlowVersion
    /\ LET parent == CHOOSE p \in cas[h].parents : TRUE
           ent == list(cas[ta_handle], h, parent.token)
           cmd == upd_entitlements(parent.handle, ent.res)
           r == process_command(cas[h], h, cmd)
       IN  IF ent.err # "none"
           THEN /\ outcome' = Outcome(ta_handle, "List", ent.err, <<>>)
                /\ flow' = NoFlow
                /\ UNCHANGED cas
           ELSE /\ cas' = [cas EXCEPT ![h] = AfterCommand(h, cmd)]
                /\ outcome' = Outcome(h, cmd.type, r.err, r.events)
                /\ flow' = [step |-> "issue", handle |-> h,
                            child |-> AfterCommand(h, cmd),
                            token |-> parent.token,
                            key |-> AfterCommand(h, cmd).rc.cur.id,
                            res |-> ent.res]
    /\ UNCHANGED <<now, outsideCa>>

\* update_entitlements up to its first commit: the parent lists the
\* entitlement, the child processes it and its events are committed.
CaEntitlements(h) ==
    /\ flow.step = "idle" \/ (flow.step = "entitle" /\ flow.handle = h)
    /\ cas[h] # NoAgg /\ cas[ta_handle] # NoAgg
    /\ ~cas[h].isTa /\ cas[h].parents # {}
    /\ flow.step = "idle" => cas[h].version <= MaxFlowVersion
    /\ LET parent == CHOOSE p \in cas[h].parents : TRUE
           ent == list(cas[ta_handle], h, parent.token)
           cmd == upd_entitlements(parent.handle, ent.res)
           r == process_command(cas[h], h, cmd)
       IN  IF ent.err # "none"
           THEN /\ outcome' = Outcome(ta_handle, "List", ent.err, <<>>)
                /\ flow' = NoFlow
                /\ UNCHANGED cas
           ELSE /\ cas' = [cas EXCEPT ![h] = AfterCommand(h, cmd)]
                /\ outcome' = Outcome(h, cmd.type, r.err, r.events)
                /\ flow' = IF r.events = <<>> THEN NoFlow
                           ELSE [step |-> "issue", handle |-> h,
                                 child |-> AfterCommand(h, cmd),
                                 token |-> parent.token,
                                 key |-> AfterCommand(h, cmd).rc.cur.id,
                                 res |-> ent.res]
    /\ UNCHANGED <<now, outsideCa>>

\* update_entitlements, second commit: issue() on the trust anchor.
CaIssue ==
    /\ flow.step = "issue"
    /\ LET cmd == certify_child(flow.handle, flow.token, flow.key, flow.res)
           r == process_command(cas[ta_handle], ta_handle, cmd)
       IN  /\ cas' = [cas EXCEPT ![ta_handle] = AfterCommand(ta_handle, cmd)]
           /\ outcome' = Outcome(ta_handle, cmd.type, r.err, r.events)
           /\ flow' = IF r.err = "none" THEN [flow EXCEPT !.step = "receive"] ELSE NoFlow
    /\ UNCHANGED <<now, outsideCa>>

\* A faulty third commit that processes the certificate and stores nothing.
CaReceive_without_update ==
    /\ flow.step = "receive"
    /\ LET cmd == upd_received_cert(ta_handle, flow.key, flow.res, now)
           r == process_command(flow.child, flow.handle, cmd)
       IN  outcome' = Outcome(flow.handle, cmd.type, r.err, r.events)
    /\ flow' = NoFlow
    /\ UNCHANGED <<cas, now, outsideCa>>

\* update_entitlements, third commit: the child it holds processes the
\* issued certificate; update() refuses the events when the child has moved on.
CaReceive ==
    /\ flow.step = "receive"
    /\ LET h == flow.handle
           cmd == upd_received_cert(ta_handle, flow.key, flow.res, now)
           r == process_command(flow.child, h, cmd)
       IN  IF r.err = "none" /\ flow.child.version # cas[h].version
           THEN /\ outcome' = Outcome(h, cmd.type, "ConcurrentModification", <<>>)
                /\ UNCHANGED cas
           ELSE /\ cas' = [cas EXCEPT ![h] = apply_all(flow.child, r.events)]
                /\ outcome' = Outcome(h, cmd.type, r.err, r.events)
    /\ flow' = NoFlow
    /\ UNCHANGED <<now, outsideCa>>

\* update_entitlements run to its end with no other call in between: the
\* error it returns and the CAs afterwards.
update_entitlements(h) ==
    LET parent == CHOOSE p \in cas[h].parents : TRUE
        ent == list(cas[ta_handle], h, parent.token)
        cmd == upd_entitlements(parent.handle, ent.res)
        r == process_command(cas[h], h, cmd)
        child == AfterCommand(h, cmd)
        key == child.rc.cur.id
        issue_cmd == certify_child(h, parent.token, key, ent.res)
        issue_res == process_command(cas[ta_handle], ta_handle, issue_cmd)
        rcvd_cmd == upd_received_cert(ta_handle, key, ent.res, now)
        rcvd == process_command(child, h, rcvd_cmd)
    IN  IF ent.err # "none" THEN [err |-> ent.err, after |-> cas]
        ELSE IF r.err # "none" THEN [err |-> r.err, after |-> cas]
        ELSE IF r.events = <<>> THEN [err |-> "none", after |-> cas]
        ELSE IF issue_res.err # "none"
        THEN [err |-> issue_res.err, after |-> [cas EXCEPT ![h] = child]]
        ELSE [err |-> rcvd.err,
              after |-> [cas EXCEPT ![h] = apply_all(child, rcvd.events),
                                    ![ta_handle] = AfterCommand(ta_handle, issue_cmd)]]

\* The updates requests are drawn from: up to two definitions to add, up to
\* one, not among them, to remove.
RouteUpdates ==
    {c \in {route_authorizations_update(added, removed) :
                added \in {x \in SUBSET RouteAuths : Cardinality(x) <= 2},
                removed \in {x \in SUBSET RouteAuths : Cardinality(x) <= 1}} :
        c.added \cap c.removed = {}}

CaRouteAuthorizationsUpdate(h, cmd) ==
    /\ Command(h, cmd)
    /\ UNCHANGED <<flow, now, outsideCa>>

\* ca_keyroll_init: the command, then the request for the new key goes to
\* the parent and its certificate comes back as in update_entitlements.
CaKeyRollInit(h, staging_time) ==
    /\ flow.step = "idle"
    /\ cas[h] # NoAgg /\ cas[h].parents # {}
    /\ cas[h].rc.cur.id < MaxKeys
    /\ LET cmd == keyroll("KeyRollInit", staging_time, now)
           after == AfterCommand(h, cmd)
       IN  /\ Commit(h, cmd)
           /\ flow' = IF process_command(cas[h], h, cmd).err = "none"
                      THEN [step |-> "issue", handle |-> h, child |-> after,
                            token |-> (CHOOSE p \in cas[h].parents : TRUE).token,
                            key |-> after.rc.new.id, res |-> after.rc.cur.res]
                      ELSE flow
    /\ UNCHANGED <<now, outsideCa>>

\* ca_keyroll_activate: the command, then the revocation of the old key is
\* requested from the parent.
CaKeyRollActivate(h, staging_time) ==
    /\ flow.step = "idle"
    /\ cas[h] # NoAgg /\ cas[h].parents # {}
    /\ LET cmd == keyroll("KeyRollActivate", staging_time, now)
           after == AfterCommand(h, cmd)
       IN  /\ Commit(h, cmd)
           /\ flow' = IF process_command(cas[h], h, cmd).err = "none"
                      THEN [NoFlow EXCEPT !.step = "revoke", !.handle = h,
                                          !.key = after.rc.old.id]
                      ELSE flow
    /\ UNCHANGED <<now, outsideCa>>

\* The parent revokes the certificate of the old key.
CaRevoke ==
    /\ flow.step = "revoke"
    /\ LET cmd == revoke_key("RevokeChildKey", flow.handle, flow.key)
       IN  /\ Commit(ta_handle, cmd)
           /\ flow' = IF process_command(cas[ta_handle], ta_handle, cmd).err = "none"
                      THEN [flow EXCEPT !.step = "finish"] ELSE NoFlow
    /\ UNCHANGED <<now, outsideCa>>

\* The confirmation of the revocation reaches the CA; the flow goes on to
\* publish.
CaKeyRollFinish ==
    /\ flow.step = "finish"
    /\ LET cmd == revoke_key("KeyRollFinish", flow.handle, flow.key)
       IN  /\ Commit(flow.handle, cmd)
           /\ flow' = IF process_command(cas[flow.handle], flow.handle, cmd).err = "none"
                      THEN [flow EXCEPT !.step = "publish"] ELSE NoFlow
    /\ UNCHANGED <<now, outsideCa>>

\* ta_publish and its like for the other CAs: the Publish command is always
\* sent, the store is updated when there are events.
ca_publish(h) ==
    /\ cas[h] # NoAgg
    /\ \E events \in {process_command(cas[h], h, publish).events} :
           IF events # <<>>
           THEN /\ cas' = [cas EXCEPT ![h] = apply_all(@, events)]
                /\ outcome' = Outcome(h, publish.type, "none", events)
           ELSE /\ outcome' = Outcome(h, publish.type, "none", <<>>)
                /\ UNCHANGED cas

\* republish_all: the scheduler publishes when no flow is under way.
CaPublish(h) ==
    /\ flow.step = "idle"
    /\ ca_publish(h)
    /\ UNCHANGED <<flow, now, outsideCa>>

\* The end of a flow that waits to publish.
CaFlowPublish ==
    /\ flow.step = "publish"
    /\ ca_publish(flow.handle)
    /\ flow' = NoFlow
    /\ UNCHANGED <<now, outsideCa>>

Tick ==
    /\ now < MaxTime
    /\ now' = now + 1
    /\ UNCHANGED <<cas, flow, outcome, outsideCa>>

(***************************************************************************)
(* Routes: the authorizations of a CA with their meta-information, a map   *)
(* from RouteAuthorization to RouteInfo; the info is the time since when   *)
(* the authorization is there.  The map is the set of its entries.         *)
(***************************************************************************)
RouteInfo(since) == [since |-> since]

routesInit == routes = {}

Routes_authorizations(map) == {entry.auth : entry \in map}

Routes_has(map, auth) == auth \in Routes_authorizations(map)

\* HashMap::insert: the entry under the key, if any, gives way to the new one.
HashMap_insert(map, key, value) ==
    {entry \in map : entry.auth # key} \cup {[auth |-> key, info |-> value]}

\* Routes::add, "adds a new authorization, or updates an existing one": the
\* authorization is inserted with the default info, which is since now.
Routes_add(map, auth, time) == HashMap_insert(map, auth, RouteInfo(time))

\* Routes::remove
Routes_remove(map, auth) == {entry \in map : entry.auth # auth}

RoutesAdd(auth) ==
    /\ routes' = Routes_add(routes, auth, now)
    /\ UNCHANGED <<storeVars, threadVars, pubVars, caVars, callVars, mqVars, apiVars,
                   lockVars>>

RoutesRemove(auth) ==
    /\ Routes_has(routes, auth)
    /\ routes' = Routes_remove(routes, auth)
    /\ UNCHANGED <<storeVars, threadVars, pubVars, caVars, callVars, mqVars, apiVars,
                   lockVars>>

(***************************************************************************)
(* The event queue and the scheduler that drains it                        *)
(***************************************************************************)
\* QueueEvent::Delta
QueueEvent_Delta(handle, delta) ==
    [type |-> "Delta", handle |-> handle, parent |-> "none", delta |-> delta]

\* QueueEvent::ParentAdded
QueueEvent_ParentAdded(handle, parent) ==
    [type |-> "ParentAdded", handle |-> handle, parent |-> parent,
     delta |-> PublicationDelta({}, {}, {})]

\* logged: the CAs whose error the run has logged
NoRefresh == [on |-> FALSE, todo |-> {}, logged |-> {}]

mqInit ==
    /\ event_queue = <<>>
    /\ sent = <<>>
    /\ event_run = FALSE
    /\ refresh_run = NoRefresh

\* A faulty listener that queues the deltas of the CAs but not of the TA.
EventQueueListener_listen_ca_only(q, event) ==
    IF event.det.type = "Published"
    THEN Append(q, QueueEvent_Delta(event.handle, event.det.delta))
    ELSE IF event.det.type = "ParentAdded"
    THEN Append(q, QueueEvent_ParentAdded(event.handle, event.det.parent))
    ELSE q

\* EventQueueListener::listen: the queue after the listener has seen an event.
EventQueueListener_listen(q, event) ==
    IF event.det.type \in {"Published", "TaPublished"}
    THEN Append(q, QueueEvent_Delta(event.handle, event.det.delta))
    ELSE IF event.det.type = "ParentAdded"
    THEN Append(q, QueueEvent_ParentAdded(event.handle, event.det.parent))
    ELSE q

\* The store calls the listener with the events of a commit, in order; the
\* init event of add() is no event of this kind.
RECURSIVE listen_all(_, _)
listen_all(q, events) ==
    IF events = <<>> THEN q
    ELSE listen_all(IF Head(events).det.type = "Ini" THEN q
                    ELSE EventQueueListener_listen(q, Head(events)),
                    Tail(events))

\* What a step of the CaServer does to the queue: the listener hears the
\* events the step has committed.
Listened ==
    /\ event_queue' = listen_all(event_queue, outcome'.events)
    /\ UNCHANGED <<sent, event_run, refresh_run>>

\* What pubserver.publish can return to the scheduler.
PublishResults == {"ok", "RemotePeerError"}

\* make_event_sh: every second a run of the drain starts.
event_sh_start ==
    /\ ~event_run
    /\ event_run' = TRUE
    /\ UNCHANGED <<event_queue, sent, refresh_run, outsideQueue>>

\* A faulty turn that returns from the run when publish fails.
event_sh_pop_return_on_error ==
    /\ event_run
    /\ event_queue # <<>>
    /\ event_queue' = Tail(event_queue)
    /\ IF Head(event_queue).type = "Delta"
       THEN \E result \in PublishResults :
                /\ sent' = Append(sent, [handle |-> Head(event_queue).handle,
                                         delta |-> Head(event_queue).delta,
                                         result |-> result])
                /\ event_run' = (result = "ok")
       ELSE UNCHANGED <<sent, event_run>>
    /\ UNCHANGED <<refresh_run, outsideQueue>>

\* One turn of `while let Some(evt) = event_queue.pop()`: a delta goes to
\* the Publication Server, and an error is logged; the entitlement fetch a
\* ParentAdded item asks for is the update_entitlements of the CaServer.
event_sh_pop ==
    /\ event_run
    /\ event_queue # <<>>
    /\ event_queue' = Tail(event_queue)
    /\ IF Head(event_queue).type = "Delta"
       THEN \E result \in PublishResults :
                sent' = Append(sent, [handle |-> Head(event_queue).handle,
                                      delta |-> Head(event_queue).delta,
                                      result |-> result])
       ELSE UNCHANGED sent
    /\ UNCHANGED <<event_run, refresh_run, outsideQueue>>

\* pop() returns None: the run ends.
event_sh_end ==
    /\ event_run
    /\ event_queue = <<>>
    /\ event_run' = FALSE
    /\ UNCHANGED <<event_queue, sent, refresh_run, outsideQueue>>

\* make_ca_refresh_sh: at the refresh rate a run over all CAs starts, with
\* the handles the store lists.
ca_refresh_start ==
    /\ ~refresh_run.on
    /\ refresh_run' = [on |-> TRUE, todo |-> {h \in Handles : cas[h] # NoAgg},
                       logged |-> {}]
    /\ UNCHANGED <<event_queue, sent, event_run, outsideQueue>>

\* One turn of `for handle in self.ca_store.list()`, in any order of the
\* handles: update_entitlements for the CA, which returns at once for the
\* trust anchor and for a CA without parent, fails when there is no trust
\* anchor to ask, and else lists, processes and commits; its error is
\* logged and the loop goes on.
update_all_entitlements_next(h) ==
    /\ refresh_run.on /\ h \in refresh_run.todo
    /\ flow.step = "idle"
    /\ IF cas[h].isTa \/ cas[h].parents = {}
       THEN /\ refresh_run' = [refresh_run EXCEPT !.todo = @ \ {h}]
            /\ UNCHANGED <<event_queue, sent, event_run, outsideQueue>>
       ELSE IF cas[ta_handle] = NoAgg
       THEN /\ outcome' = Outcome(ta_handle, "List", "TrustAnchorNotInitialisedError", <<>>)
            /\ refresh_run' = [refresh_run EXCEPT !.todo = @ \ {h},
                                                  !.logged = @ \cup {h}]
            /\ UNCHANGED <<cas, flow, now, outsideCa, event_queue, sent, event_run>>
       ELSE /\ CaEntitlements(h)
            /\ refresh_run' = [refresh_run EXCEPT
                                   !.todo = @ \ {h},
                                   !.logged = IF outcome'.err = "none" THEN @
                                              ELSE @ \cup {h}]
            /\ event_queue' = listen_all(event_queue, outcome'.events)
            /\ UNCHANGED <<sent, event_run>>

\* The loop is through: the run ends, Ok(()) whatever was logged.
ca_refresh_end ==
    /\ refresh_run.on /\ refresh_run.todo = {}
    /\ flow.step = "idle"
    /\ refresh_run' = NoRefresh
    /\ UNCHANGED <<event_queue, sent, event_run, outsideQueue>>

(***************************************************************************)
(* The work queue under its locks.  EventQueueListener holds its store in  *)
(* an RwLock, MemoryEventQueue holds its VecDeque in another; push_back    *)
(* and pop take the write lock of the first, then of the second, work on   *)
(* the VecDeque, and drop the guards in reverse order.                     *)
(***************************************************************************)
\* most work items pushed
MaxPushed == 3

\* The scheduler, the one caller of pop.
Scheduler == "scheduler"

\* The committing threads, whose listener pushes, and the scheduler.
QueueThreads == Threads \cup {Scheduler}

\* The work items the listeners push.
WorkItems ==
    {QueueEvent_ParentAdded(h, ta_handle) : h \in ChildHandles}
        \cup {QueueEvent_Delta(ta_handle, PublicationDelta({}, {}, {}))}

\* Option::None
None == [type |-> "None"]

\* at: where the call is; seen: the VecDeque as the call has read it;
\* result: what the call returns
NoQueueCall == [at |-> "idle", op |-> "none", evt |-> None, seen |-> <<>>,
                result |-> None]

lockInit ==
    /\ q_lock = [listener |-> "free", queue |-> "free"]
    /\ q_call = [t \in QueueThreads |-> NoQueueCall]
    /\ q_log = [pushed |-> <<>>, popped |-> <<>>]

\* EventQueueListener::push_back is called by listen() in a committing thread.
EventQueueListener_push_back(t, evt) ==
    /\ q_call[t].at = "idle"
    /\ Len(q_log.pushed)
          + Cardinality({u \in QueueThreads : q_call[u].op = "push_back"}) < MaxPushed
    /\ q_call' = [q_call EXCEPT ![t] = [NoQueueCall EXCEPT !.at = "listener",
                                                           !.op = "push_back",
                                                           !.evt = evt]]
    /\ UNCHANGED <<q_lock, q_log, mqVars, outsideLocks>>

\* EventQueueListener::pop is called by the scheduler.
EventQueueListener_pop(t) ==
    /\ q_call[t].at = "idle"
    /\ q_call' = [q_call EXCEPT ![t] = [NoQueueCall EXCEPT !.at = "listener",
                                                           !.op = "pop"]]
    /\ UNCHANGED <<q_lock, q_log, mqVars, outsideLocks>>

\* self.q.write() of the EventQueueListener: waits until the lock is free.
EventQueueListener_write(t) ==
    /\ q_call[t].at = "listener"
    /\ q_lock.listener = "free"
    /\ q_lock' = [q_lock EXCEPT !.listener = t]
    /\ q_call' = [q_call EXCEPT ![t].at = "queue"]
    /\ UNCHANGED <<q_log, mqVars, outsideLocks>>

\* self.q.write() of the MemoryEventQueue: waits until the lock is free.
MemoryEventQueue_write(t) ==
    /\ q_call[t].at = "queue"
    /\ q_lock.queue = "free"
    /\ q_lock' = [q_lock EXCEPT !.queue = t]
    /\ q_call' = [q_call EXCEPT ![t].at = "read"]
    /\ UNCHANGED <<q_log, mqVars, outsideLocks>>

\* pop_front and push_back read the VecDeque through the guard ...
VecDeque_read(t) ==
    /\ q_call[t].at = "read"
    /\ q_call' = [q_call EXCEPT ![t].at = "write", ![t].seen = event_queue]
    /\ UNCHANGED <<q_lock, q_log, mqVars, outsideLocks>>

\* A faulty pop that returns the front and leaves it in the queue.
MemoryEventQueue_done_keeps_front(t) ==
    /\ q_call[t].at = "write"
    /\ LET seen == q_call[t].seen
       IN  IF q_call[t].op = "push_back"
           THEN /\ event_queue' = Append(seen, q_call[t].evt)
                /\ q_log' = [q_log EXCEPT !.pushed = Append(@, q_call[t].evt)]
                /\ q_call' = [q_call EXCEPT ![t].at = "return"]
           ELSE IF seen = <<>>
           THEN /\ event_queue' = seen
                /\ q_call' = [q_call EXCEPT ![t].at = "return", ![t].result = None]
                /\ UNCHANGED q_log
           ELSE /\ event_queue' = seen
                /\ q_log' = [q_log EXCEPT !.popped = Append(@, Head(seen))]
                /\ q_call' = [q_call EXCEPT ![t].at = "return",
                                            ![t].result = Head(seen)]
    /\ q_lock' = [q_lock EXCEPT !.queue = "free"]
    /\ UNCHANGED <<sent, event_run, refresh_run, outsideLocks>>

\* ... and write it: push_back appends the item, pop_front takes the front
\* or returns None; the guard of the MemoryEventQueue is dropped.
MemoryEventQueue_done(t) ==
    /\ q_call[t].at = "write"
    /\ LET seen == q_call[t].seen
       IN  IF q_call[t].op = "push_back"
           THEN /\ event_queue' = Append(seen, q_call[t].evt)
                /\ q_log' = [q_log EXCEPT !.pushed = Append(@, q_call[t].evt)]
                /\ q_call' = [q_call EXCEPT ![t].at = "return"]
           ELSE IF seen = <<>>
           THEN /\ event_queue' = seen
                /\ q_call' = [q_call EXCEPT ![t].at = "return", ![t].result = None]
                /\ UNCHANGED q_log
           ELSE /\ event_queue' = Tail(seen)
                /\ q_log' = [q_log EXCEPT !.popped = Append(@, Head(seen))]
                /\ q_call' = [q_call EXCEPT ![t].at = "return",
                                            ![t].result = Head(seen)]
    /\ q_lock' = [q_lock EXCEPT !.queue = "free"]
    /\ UNCHANGED <<sent, event_run, refresh_run, outsideLocks>>

\* The call returns: the guard of the EventQueueListener is dropped.
EventQueueListener_return(t) ==
    /\ q_call[t].at = "return"
    /\ q_lock' = [q_lock EXCEPT !.listener = "free"]
    /\ q_call' = [q_call EXCEPT ![t].at = "idle", ![t].op = "none"]
    /\ UNCHANGED <<q_log, mqVars, outsideLocks>>

(***************************************************************************)
(* Concurrent publish calls for one publisher                              *)
(***************************************************************************)
\* The version of the publisher up to which calls are taken up.
MaxPubVersion == 4

\* The jail of the publisher the threads publish for.
p_base_uri == <<"repo", "alice">>

\* The deltas the threads send, one atom each.
CallDeltas == {d \in PublishDeltas : delta_size(d) = 1}

\* first: the version the call loaded first; version, objects: what it
\* loaded last; refused: how often its commit was refused as stale;
\* created: the version its commit made (0: none).
NoPublishCall ==
    [pc |-> "idle", delta |-> PublishDelta({}), first |-> 0, version |-> 0,
     objects |-> [u \in Uris |-> NoFile], refused |-> 0, created |-> 0,
     result |-> "none"]

callInit ==
    /\ pub_agg = [version |-> 1, objects |-> [u \in Uris |-> NoFile]]
    /\ pub_call = [t \in Threads |-> NoPublishCall]

\* A faulty store that commits whatever version the caller has seen.
version_matches_always(expected, stored) == TRUE

\* The commit rereads the current version and rejects with
\* ConcurrentModification if it differs from the caller's expected version.
version_matches(expected, stored) == expected = stored

\* handle_delta under the read lock of the server: a thread takes up a
\* publish delta while other calls may be under way.
PublishCall(t, delta) ==
    /\ pub_call[t].pc = "idle"
    /\ pub_agg.version < MaxPubVersion
    /\ pub_call' = [pub_call EXCEPT ![t] = [NoPublishCall EXCEPT !.pc = "load",
                                                                !.delta = delta]]
    /\ UNCHANGED <<pub_agg, outsideCalls>>

\* The call loads the publisher as it is stored, also after a refusal.
PublishLoad(t) ==
    /\ pub_call[t].pc = "load"
    /\ pub_call' = [pub_call EXCEPT ![t].pc = "process",
                                    ![t].version = pub_agg.version,
                                    ![t].objects = pub_agg.objects,
                                    ![t].first = IF pub_call[t].refused = 0
                                                 THEN pub_agg.version ELSE @]
    /\ UNCHANGED <<pub_agg, outsideCalls>>

\* The delta is verified against the publisher the call has loaded.
PublishProcess(t) ==
    /\ pub_call[t].pc = "process"
    /\ \E error \in verify(pub_call[t].objects, pub_call[t].delta, p_base_uri) :
           pub_call' = [pub_call EXCEPT ![t].pc = IF error = "ok" THEN "commit" ELSE "done",
                                        ![t].result = IF error = "ok" THEN @ ELSE error]
    /\ UNCHANGED <<pub_agg, outsideCalls>>

\* The commit: the Published event becomes the next version, or the call
\* is refused and starts again from the load.
PublishCommit(t) ==
    /\ pub_call[t].pc = "commit"
    /\ IF version_matches(pub_call[t].version, pub_agg.version)
       THEN /\ pub_agg' = [version |-> pub_agg.version + 1,
                           objects |-> update_files(pub_agg.objects, pub_call[t].delta)]
            /\ pub_call' = [pub_call EXCEPT ![t].pc = "done", ![t].result = "ok",
                                            ![t].created = pub_agg.version + 1]
       ELSE /\ pub_call' = [pub_call EXCEPT ![t].pc = "load", ![t].refused = @ + 1]
            /\ UNCHANGED pub_agg
    /\ UNCHANGED outsideCalls

\* The call returns its result to the caller.
PublishReturn(t) ==
    /\ pub_call[t].pc = "done"
    /\ pub_call' = [pub_call EXCEPT ![t] = NoPublishCall]
    /\ UNCHANGED <<pub_agg, outsideCalls>>

(***************************************************************************)
(* Specifications                                                          *)
(***************************************************************************)
Init == storeInit /\ pubInit /\ caInit /\ callInit /\ mqInit /\ routesInit /\ apiInit
             /\ lockInit

Next ==
    \/ \E t \in Threads : init_ta(t)
    \/ \E t \in Threads, h \in ChildHandles : init_ca(t, h, "tok1")
    \/ \E t \in Threads, child \in ChildHandles, res \in ResourceChoices :
          ta_add_child(t, child, "tok1", res)
    \/ \E t \in Threads, child \in ChildHandles, token \in {"tok2", KeepToken},
          res \in {{"v4a"}, {}} : ta_update_child(t, child, token, res)
    \/ \E t \in Threads, child \in ChildHandles, token \in Tokens :
          issue(t, ta_handle, child, token, {"v4a"})
    \/ \E t \in Threads : Process(t)
    \/ \E t \in Threads : UpdateLock(t)
    \/ \E t \in Threads : UpdateCommit(t)
    \/ \E t \in Threads : UpdateNotify(t)
    \/ \E t \in Threads : UpdateRelease(t)
    \/ \E t \in Threads : Return(t)
    \/ \E h \in Handles : SaveSnapshot(h)
    \/ Restart

Spec == Init /\ [][Next]_vars

NextPub ==
    \/ \E handle \in PubHandles, base \in BaseUris :
          add_publisher(handle, base) /\ UNCHANGED apiVars
    \/ \E handle \in PubHandles :
          deactivate_publisher(handle) /\ UNCHANGED apiVars
    \/ \E handle \in PubHandles, delta \in PublishDeltas :
          handle_delta(handle, delta) /\ UNCHANGED apiVars

InitPub == storeInit /\ pubInit /\ caInit /\ callInit /\ mqInit /\ routesInit /\ apiInit
             /\ lockInit

SpecPub == InitPub /\ [][NextPub]_vars

NextCa ==
    \/ CaInit(ta_handle, IniDet_init_ta(ta_handle)) /\ UNCHANGED mqVars
    \/ \E h \in ChildHandles : CaInit(h, IniDet_init(h, "tok1"))
          /\ UNCHANGED mqVars
    \/ \E target \in AdminTargets, child \in ChildHandles,
          res \in ResourceChoices \cup {{"v4b", "v6a"}} :
          CaAddChild(target, child, "tok1", res) /\ UNCHANGED mqVars
    \/ \E target \in AdminTargets, child \in ChildHandles,
          res \in ResourceChoices \cup {{"v4b", "v6a"}} :
          CaUpdateChild(target, child, KeepToken, res) /\ UNCHANGED mqVars
    \/ \E h \in ChildHandles, token \in Tokens : CaAddParent(h, ta_handle, token)
          /\ UNCHANGED mqVars
    \/ \E h \in Handles : CaEntitlements(h)
          /\ UNCHANGED mqVars
    \/ CaIssue /\ UNCHANGED mqVars
    \/ CaReceive /\ UNCHANGED mqVars
    \/ \E h \in ChildHandles, cmd \in RouteUpdates : CaRouteAuthorizationsUpdate(h, cmd)
          /\ UNCHANGED mqVars

InitCa == storeInit /\ pubInit /\ caInit /\ callInit /\ mqInit /\ routesInit /\ apiInit
             /\ lockInit

SpecCa == InitCa /\ [][NextCa]_vars

\* The CaServer with key rolls, for a child with a fixed entitlement.
NextKeys ==
    \/ CaInit(ta_handle, IniDet_init_ta(ta_handle)) /\ UNCHANGED mqVars
    \/ \E h \in ChildHandles : CaInit(h, IniDet_init(h, "tok1"))
          /\ UNCHANGED mqVars
    \/ \E child \in ChildHandles : CaAddChild(ta_handle, child, "tok1", {"v4a", "v4b"})
          /\ UNCHANGED mqVars
    \/ \E h \in ChildHandles : CaAddParent(h, ta_handle, "tok1")
          /\ UNCHANGED mqVars
    \/ \E h \in ChildHandles : CaEntitlements(h)
          /\ UNCHANGED mqVars
    \/ CaIssue /\ UNCHANGED mqVars
    \/ CaReceive /\ UNCHANGED mqVars
    \/ \E h \in ChildHandles, staging_time \in 0..MaxTime : CaKeyRollInit(h, staging_time)
          /\ UNCHANGED mqVars
    \/ \E h \in ChildHandles, staging_time \in 0..MaxTime :
          CaKeyRollActivate(h, staging_time) /\ UNCHANGED mqVars
    \/ CaRevoke /\ UNCHANGED mqVars
    \/ CaKeyRollFinish /\ UNCHANGED mqVars
    \/ \E h \in Handles : CaPublish(h)
          /\ UNCHANGED mqVars
    \/ CaFlowPublish /\ UNCHANGED mqVars
    \/ Tick /\ UNCHANGED mqVars
    \/ \E h \in ChildHandles, auth \in {RoaDefinition(64496, Prefix("v4", "v4a", 24), {})} :
          /\ UNCHANGED mqVars
          /\ \/ CaRouteAuthorizationsUpdate(h, route_authorizations_update({auth}, {}))
             \/ CaRouteAuthorizationsUpdate(h, route_authorizations_update({}, {auth}))

InitKeys == storeInit /\ pubInit /\ caInit /\ callInit /\ mqInit /\ routesInit /\ apiInit
             /\ lockInit

SpecKeys == InitKeys /\ [][NextKeys]_vars

\* The parent answers a revocation request, the confirmation is delivered,
\* and a flow that waits to publish does publish.
FairKeys ==
    /\ WF_vars(CaRevoke /\ UNCHANGED mqVars)
    /\ WF_vars(CaKeyRollFinish /\ UNCHANGED mqVars)
    /\ WF_vars(CaFlowPublish /\ UNCHANGED mqVars)

SpecKeysLive == InitKeys /\ [][NextKeys]_vars /\ FairKeys

\* The route authorization the CAs ask for below: on the prefix a child
\* loses when its resources shrink.
ShrinkAuths == {RoaDefinition(64496, Prefix("v4", "v4b", 24), {})}

\* The CaServer with a parent that changes the resources of its child, and
\* with Publish.
NextShrink ==
    \/ CaInit(ta_handle, IniDet_init_ta(ta_handle)) /\ UNCHANGED mqVars
    \/ \E h \in ChildHandles : CaInit(h, IniDet_init(h, "tok1")) /\ UNCHANGED mqVars
    \/ \E child \in ChildHandles, res \in ResourceChoices :
          CaAddChild(ta_handle, child, "tok1", res) /\ UNCHANGED mqVars
    \/ \E child \in ChildHandles, res \in ResourceChoices :
          CaUpdateChild(ta_handle, child, KeepToken, res) /\ UNCHANGED mqVars
    \/ \E h \in ChildHandles : CaAddParent(h, ta_handle, "tok1") /\ UNCHANGED mqVars
    \/ \E h \in Handles : CaEntitlements(h) /\ UNCHANGED mqVars
    \/ CaIssue /\ UNCHANGED mqVars
    \/ CaReceive /\ UNCHANGED mqVars
    \/ \E h \in ChildHandles, auth \in ShrinkAuths :
          CaRouteAuthorizationsUpdate(h, route_authorizations_update({auth}, {}))
          /\ UNCHANGED mqVars
    \/ \E h \in ChildHandles, auth \in ShrinkAuths :
          CaRouteAuthorizationsUpdate(h, route_authorizations_update({}, {auth}))
          /\ UNCHANGED mqVars
    \/ \E h \in Handles : CaPublish(h) /\ UNCHANGED mqVars

InitShrink == storeInit /\ pubInit /\ caInit /\ callInit /\ mqInit /\ routesInit /\ apiInit
             /\ lockInit

SpecShrink == InitShrink /\ [][NextShrink]_vars

\* The CaServer, whose commits the queue hears of, and the scheduler that
\* drains the queue.
NextQueue ==
    \/ CaInit(ta_handle, IniDet_init_ta(ta_handle)) /\ Listened
    \/ \E h \in ChildHandles : CaInit(h, IniDet_init(h, "tok1")) /\ Listened
    \/ \E child \in ChildHandles :
          CaAddChild(ta_handle, child, "tok1", {"v4a", "v4b"}) /\ Listened
    \/ \E h \in ChildHandles : CaAddParent(h, ta_handle, "tok1") /\ Listened
    \/ \E h \in Handles : CaEntitlements(h) /\ Listened
    \/ CaIssue /\ Listened
    \/ CaReceive /\ Listened
    \/ \E h \in ChildHandles, auth \in ShrinkAuths :
          CaRouteAuthorizationsUpdate(h, route_authorizations_update({auth}, {}))
          /\ Listened
    \/ \E h \in Handles : CaPublish(h) /\ Listened
    \/ event_sh_start
    \/ event_sh_pop
    \/ event_sh_end
    \/ ca_refresh_start
    \/ \E h \in Handles : update_all_entitlements_next(h)
    \/ ca_refresh_end

InitQueue == storeInit /\ pubInit /\ caInit /\ callInit /\ mqInit /\ routesInit /\ apiInit
             /\ lockInit

SpecQueue == InitQueue /\ [][NextQueue]_vars

\* The scheduler runs the drain every second: a run that can start does
\* start, and a run under way takes its next turn.
FairQueue ==
    /\ WF_vars(event_sh_start)
    /\ WF_vars(event_sh_pop)
    /\ WF_vars(event_sh_end)

SpecQueueLive == InitQueue /\ [][NextQueue]_vars /\ FairQueue

\* The Routes of one CA as the time passes.
NextRoutes ==
    \/ \E auth \in RouteAuths : RoutesAdd(auth)
    \/ \E auth \in RouteAuths : RoutesRemove(auth)
    \/ Tick /\ UNCHANGED mqVars

InitRoutes == storeInit /\ pubInit /\ caInit /\ callInit /\ mqInit /\ routesInit /\ apiInit
             /\ lockInit

SpecRoutes == InitRoutes /\ [][NextRoutes]_vars

\* The deltas sent through the API: those of one atom.
ApiDeltas == {d \in PublishDeltas : delta_size(d) = 1}

NextApi ==
    \/ \E handle \in PubHandles, base \in BaseUris : endpoints_add_publisher(handle, base)
    \/ \E handle \in PubHandles : endpoints_deactivate_publisher(handle)
    \/ \E handle \in PubHandles, delta \in ApiDeltas :
          endpoints_handle_delta(handle, delta)
    \/ \E error \in ApiErrors : RequestFails(error)

InitApi == storeInit /\ pubInit /\ caInit /\ callInit /\ mqInit /\ routesInit /\ apiInit
             /\ lockInit

SpecApi == InitApi /\ [][NextApi]_vars

NextSync ==
    \/ \E handle \in PubHandles, base \in BaseUris :
          add_publisher(handle, base) /\ UNCHANGED apiVars
    \/ \E handle \in PubHandles :
          deactivate_publisher(handle) /\ UNCHANGED apiVars
    \/ \E handle \in PubHandles :
          \E dir \in Dirs(IF publishers[handle] = NoPublisher THEN <<>>
                          ELSE publishers[handle].base_uri) :
              sync_dir(handle, dir)

InitSync == storeInit /\ pubInit /\ caInit /\ callInit /\ mqInit /\ routesInit /\ apiInit
             /\ lockInit

SpecSync == InitSync /\ [][NextSync]_vars

\* The Publication Server with a repository whose RRDP server can fail.
NextRepo ==
    \/ \E handle \in PubHandles, base \in BaseUris :
          add_publisher(handle, base) /\ UNCHANGED apiVars
    \/ \E handle \in PubHandles, delta \in ApiDeltas, rrdp_result \in RrdpResults :
          handle_delta_rrdp(handle, delta, rrdp_result) /\ UNCHANGED apiVars

InitRepo == storeInit /\ pubInit /\ caInit /\ callInit /\ mqInit /\ routesInit /\ apiInit
             /\ lockInit

SpecRepo == InitRepo /\ [][NextRepo]_vars

\* Listeners push from the committing threads while the scheduler pops.
NextLocks ==
    \/ \E t \in Threads, evt \in WorkItems : EventQueueListener_push_back(t, evt)
    \/ EventQueueListener_pop(Scheduler)
    \/ \E t \in QueueThreads : EventQueueListener_write(t)
    \/ \E t \in QueueThreads : MemoryEventQueue_write(t)
    \/ \E t \in QueueThreads : VecDeque_read(t)
    \/ \E t \in QueueThreads : MemoryEventQueue_done(t)
    \/ \E t \in QueueThreads : EventQueueListener_return(t)

InitLocks == storeInit /\ pubInit /\ caInit /\ callInit /\ mqInit /\ routesInit /\ apiInit
             /\ lockInit

SpecLocks == InitLocks /\ [][NextLocks]_vars

NextCalls ==
    \/ \E t \in Threads, delta \in CallDeltas : PublishCall(t, delta)
    \/ \E t \in Threads : PublishLoad(t)
    \/ \E t \in Threads : PublishProcess(t)
    \/ \E t \in Threads : PublishCommit(t)
    \/ \E t \in Threads : PublishReturn(t)

InitCalls == storeInit /\ pubInit /\ caInit /\ callInit /\ mqInit /\ routesInit /\ apiInit
             /\ lockInit

SpecCalls == InitCalls /\ [][NextCalls]_vars

(***************************************************************************)
(* Properties of the aggregate store                                       *)
(***************************************************************************)
CalledUpdate(t) == pc[t] = "done" /\ loc[t].updated

C1_ExactlyOneSucceeds ==
    \A t, u \in Threads :
        (/\ t # u
         /\ CalledUpdate(t) /\ CalledUpdate(u)
         /\ loc[t].handle = loc[u].handle
         /\ loc[t].loaded = loc[u].loaded)
        => /\ {loc[t].result, loc[u].result} = {"ok", "ConcurrentModification"}

C1_RejectedStep ==
    \A t \in Threads :
        (pc[t] # "done" /\ pc'[t] = "done" /\ loc'[t].result = "ConcurrentModification")
        => UNCHANGED <<log, snapshot, cache, heard>>

\* C1: of two committers that loaded the same handle at the same version and
\* both call update, exactly one succeeds and the other gets
\* ConcurrentModification; the rejected update writes no event, applies none
\* and no listener hears of any.
C1_OneCommitterWins == []C1_ExactlyOneSucceeds /\ [][C1_RejectedStep]_vars

C1_BothCalledUpdate ==
    /\ CalledUpdate("t1") /\ CalledUpdate("t2")
    /\ loc["t1"].op = "issue" /\ loc["t2"].op = "ta_update_child"
    /\ loc["t1"].loaded = loc["t2"].loaded
    /\ loc["t1"].result = "ConcurrentModification"
    /\ loc["t2"].result = "ok"

\* C2: the versions of the committed events of every aggregate are exactly
\* 0..n without gap or duplicate, and the init event, and only it, has
\* version 0.
C2_VersionsContiguous ==
    \A h \in Handles : \A i \in 1..Len(log[h]) :
        /\ log[h][i].version = i - 1
        /\ (log[h][i].det.type = "Ini") = (log[h][i].version = 0)

C2_LogsWithEvents ==
    /\ Len(log[ta_handle]) > MaxVersion
    /\ has("child")

\* init followed by apply of every later event, oldest first
RECURSIVE Replay(_)
Replay(events) ==
    IF Len(events) = 1 THEN init(Head(events))
    ELSE apply(Replay(SubSeq(events, 1, Len(events) - 1)), events[Len(events)])

\* C3: init on the init event followed by apply of all committed events in
\* version order yields the aggregate get_latest returns, also when a stored
\* snapshot is used to skip a prefix of the events.
C3_ReplayIsLatest ==
    \A h \in Handles :
        has(h) => /\ get_latest(h) = Replay(log[h])
                  /\ LoadFromDisk(h) = Replay(log[h])

C3_SnapshotSkipsPrefix ==
    /\ cache[ta_handle] = NoAgg
    /\ snapshot[ta_handle] # NoAgg
    /\ snapshot[ta_handle].version > 1
    /\ snapshot[ta_handle].version < Len(log[ta_handle])

C4_ProcessStep ==
    \A t \in Threads :
        (pc[t] = "loaded" /\ pc'[t] # "loaded")
        => /\ UNCHANGED storeVars
           /\ pc'[t] = "processed" => loc'[t].agg = loc[t].agg
           /\ LET out == process_command(loc[t].agg, loc[t].handle, loc[t].cmd)
              IN  /\ out.err # "none" => out.events = <<>> /\ pc'[t] = "done"
                  /\ out.err # "none" => loc'[t].result = out.err

C4_OnlyUpdateTakesEffect ==
    \A h \in Handles :
        (has(h) /\ get_latest(h)' # get_latest(h))
        => \E t \in Threads :
              /\ pc[t] = "locked" /\ pc'[t] = "notify" /\ loc[t].handle = h
              /\ get_latest(h)' = apply_all(get_latest(h), loc[t].events)

\* C4: process_command never changes the aggregate it is called on; when it
\* returns an error there are no events and the aggregate's state and
\* version stay as they were; events take effect only when update commits
\* them.
C4_ProcessCommandIsPure == [][C4_ProcessStep /\ C4_OnlyUpdateTakesEffect]_vars

C4_EventsNotYetCommitted ==
    \E t, u \in Threads :
        /\ pc[t] = "processed" /\ loc[t].events # <<>>
        /\ get_latest(loc[t].handle) = loc[t].agg
        /\ pc[u] = "done" /\ loc[u].result = "Unauthorized"

C5_HeardSoFar(h) ==
    LET committed == [i \in 1..(Len(log[h]) - 1) |-> log[h][i + 1].version]
        t == lock[h]
        pending == IF t \in Threads /\ pc[t] = "notify"
                   THEN Len(loc[t].events) - loc[t].sent ELSE 0
    IN  SubSeq(committed, 1, Len(committed) - pending)

\* C5: every listener is called exactly once for every event committed by
\* update and never for an event of a rejected update; per aggregate the
\* calls come in strictly increasing version order, also with concurrent
\* committers.
C5_ListenersHearCommits ==
    \A l \in Listeners, h \in Handles :
        /\ heard[l][h] = C5_HeardSoFar(h)
        /\ \A i, j \in 1..Len(heard[l][h]) : i < j => heard[l][h][i] < heard[l][h][j]

C5_HeardBatchAfterReject ==
    /\ \E t \in Threads : pc[t] = "done" /\ loc[t].result = "ConcurrentModification"
    /\ \E t \in Threads : pc[t] = "notify" /\ loc[t].sent = 1 /\ Len(loc[t].events) > 1
    /\ Len(heard["queue"][ta_handle]) > 1

(***************************************************************************)
(* Properties of the Publication Server                                    *)
(***************************************************************************)
Active(p) == publishers[p] # NoPublisher /\ ~publishers[p].deactivated

C6_ObjectsInJail ==
    \A u \in Uris :
        files[u] # NoFile => /\ owner[u] \in PubHandles
                             /\ publishers[owner[u]] # NoPublisher
                             /\ is_under(u, publishers[owner[u]].base_uri)

C6_OutsideJailRejected ==
    \A p \in PubHandles, d \in PublishDeltas :
        (Active(p) /\ \E u \in delta_uris(d) : ~is_under(u, publishers[p].base_uri))
        => handle_delta_outcomes(p, d) = {[result |-> "UriOutsideJail", files |-> files]}

\* C6: every URI among the objects of a publisher lies under the jail of
\* that publisher, and a Publish with any atom whose URI is outside the jail
\* is rejected as a whole with UriOutsideJail and changes nothing.
C6_PublisherStaysInJail == C6_ObjectsInJail /\ C6_OutsideJailRejected

C6_RejectedBesideObjects ==
    /\ reply.result = "UriOutsideJail"
    /\ \E u \in Uris : files[u] # NoFile /\ owner[u] = reply.handle
    /\ \E u \in Uris : files[u] # NoFile /\ owner[u] # reply.handle

C7_Acceptable(d) ==
    /\ \A a \in d.publishes : files[a.uri] = NoFile
    /\ \A a \in d.updates \cup d.withdraws :
          files[a.uri] # NoFile /\ hash(files[a.uri]) = a.hash

C7_Verified ==
    \A p \in PubHandles, d \in PublishDeltas :
        (Active(p) /\ \A u \in delta_uris(d) : is_under(u, publishers[p].base_uri))
        => LET outs == handle_delta_outcomes(p, d)
               results == {o.result : o \in outs}
           IN  /\ C7_Acceptable(d) <=> results = {"ok"}
               /\ results \subseteq {"ok", "ObjectAlreadyPresent", "NoObjectForHashAndOrUri"}
               /\ "ObjectAlreadyPresent" \in results
                     <=> \E a \in d.publishes : files[a.uri] # NoFile
               /\ "NoObjectForHashAndOrUri" \in results
                     <=> \E a \in d.updates \cup d.withdraws :
                            files[a.uri] = NoFile \/ hash(files[a.uri]) # a.hash
               /\ \A o \in outs : o.result # "ok" => o.files = files

C7_RejectionStep ==
    reply'.result \in {"ObjectAlreadyPresent", "NoObjectForHashAndOrUri"}
    => UNCHANGED <<publishers, files, owner, serial>>

\* C7: a Publish within the jail is accepted only if every publish URI is
\* not present and every update and withdraw URI is present with the given
\* hash; otherwise it is rejected with ObjectAlreadyPresent or
\* NoObjectForHashAndOrUri, nothing is applied, and what the publisher could
\* publish before it can publish afterwards.
C7_VerificationErrors == []C7_Verified /\ [][C7_RejectionStep]_vars

C7_RejectedThenUnchanged ==
    /\ reply.result = "NoObjectForHashAndOrUri"
    /\ \E u \in Uris : files[u] = "b" /\ owner[u] = reply.handle
    /\ serial > 1

\* C8: after any sequence of AddPublisher and DeactivatePublisher the jails
\* of the publishers are pairwise non-overlapping and lie under the rsync
\* base of the server; AddPublisher is rejected when the base URI is not
\* under the rsync base or overlaps the jail of an existing publisher.
C8_JailsDoNotOverlap ==
    /\ \A p, q \in PubHandles :
          (p # q /\ publishers[p] # NoPublisher /\ publishers[q] # NoPublisher)
          => ~is_under(publishers[p].base_uri, publishers[q].base_uri)
    /\ \A p \in PubHandles :
          publishers[p] # NoPublisher => is_under(publishers[p].base_uri, rsync_base)
    /\ \A h \in PubHandles, base \in BaseUris :
          (\/ ~is_under(base, rsync_base)
           \/ \E p \in PubHandles :
                 /\ publishers[p] # NoPublisher
                 /\ \/ is_under(base, publishers[p].base_uri)
                    \/ is_under(publishers[p].base_uri, base))
          => add_publisher_result(h, base) # "ok"

C8_TwoJailsAfterDeactivate ==
    /\ \A p \in PubHandles : publishers[p] # NoPublisher
    /\ publishers["alice"].deactivated
    /\ publishers["alice"].base_uri = <<"repo", "alice", "sub">>
    /\ reply = Reply("bob", "ok")
    /\ serial > 0

(***************************************************************************)
(* Properties of the CAs                                                   *)
(***************************************************************************)
\* The union of the resources the children of a CA are entitled to.
ChildResources(agg) ==
    UNION {agg.children[c].res : c \in {d \in ChildHandles : has_child(agg, d)}}

C10_RoaInRange(roa) ==
    LET max == effective_max_length(roa.prefix, roa.max_length)
    IN  roa.prefix.len <= max /\ max <= addr_bits(roa.prefix.fam)

C10_Refused(h, cmd) ==
    /\ process_command(cas[h], h, cmd).err # "none"
    /\ AfterCommand(h, cmd) = cas[h]

\* C10: every ROA of a CA is held under its current key, for a prefix on
\* that key's current certificate and with a max length between the prefix
\* length and 32 (IPv4) or 128 (IPv6); and a RouteAuthorizationsUpdate that
\* adds a definition for a prefix the CA does not hold is refused and
\* leaves the CA, its ROAs included, as it is.
C10_RoasWithinCertificate ==
    \A h \in Handles : cas[h] # NoAgg =>
        /\ \A roa \in cas[h].roas :
              /\ roa.key = cas[h].rc.cur.id
              /\ roa.prefix.atom \in current_resources(cas[h])
              /\ C10_RoaInRange(roa)
        /\ \A cmd \in RouteUpdates :
              (\E a \in cmd.added : a.prefix.atom \notin current_resources(cas[h]))
                  => C10_Refused(h, cmd)

\* C10 witness: a CA with ROAs for IPv4 and IPv6 has just refused an update
\* adding a definition for a prefix it does not hold.
C10_UnheldPrefixRefused ==
    /\ outcome = Outcome("child", "RouteAuthorizationsUpdate",
                         "AuthorisationNotEntitled", <<>>)
    /\ \E r4, r6 \in cas["child"].roas :
          /\ r4.prefix.fam = "v4" /\ r4.max_length = {}
          /\ r6.prefix.fam = "v6" /\ r6.max_length = {48}
    /\ "v4a" \notin current_resources(cas["child"])

(***************************************************************************)
(* Properties of the key states                                            *)
(***************************************************************************)
\* The key state of the resource class of a CA, with the keys in it.
KeyState(agg) ==
    [state |-> agg.rc.state, cur |-> agg.rc.cur.id, new |-> agg.rc.new.id,
     old |-> agg.rc.old.id]

C11_Allowed(a, b, type) ==
    \/ /\ a.state = "None" /\ b.state = "Pending"
       /\ b.cur # NoKey.id /\ b.new = NoKey.id /\ b.old = NoKey.id
    \/ /\ a.state = "Pending" /\ b.state = "Active" /\ type = "UpdateReceivedCert"
       /\ b.cur = a.cur /\ b.new = NoKey.id /\ b.old = NoKey.id
    \/ /\ a.state = "Active" /\ b.state = "RollPending" /\ type = "KeyRollInit"
       /\ b.cur = a.cur /\ b.new \notin {NoKey.id, a.cur} /\ b.old = NoKey.id
    \/ /\ a.state = "RollPending" /\ b.state = "RollNew" /\ type = "UpdateReceivedCert"
       /\ b.cur = a.cur /\ b.new = a.new /\ b.old = NoKey.id
    \/ /\ a.state = "RollNew" /\ b.state = "RollOld" /\ type = "KeyRollActivate"
       /\ b.cur = a.new /\ b.old = a.cur /\ b.new = NoKey.id
    \/ /\ a.state = "RollOld" /\ b.state = "Active" /\ type = "KeyRollFinish"
       /\ b.cur = a.cur /\ b.new = NoKey.id /\ b.old = NoKey.id

C11_KeyStateStep ==
    \A h \in Handles :
        (cas[h] # NoAgg /\ KeyState(cas'[h]) # KeyState(cas[h]))
            => C11_Allowed(KeyState(cas[h]), KeyState(cas'[h]), outcome'.type)

\* C11: the key state of a resource class changes only from Pending to
\* Active(K) on the first certificate, from Active(K) to RollPending(Knew, K)
\* on KeyRollInit, to RollNew(Knew, K) on the certificate for Knew, to
\* RollOld(Knew, K) on KeyRollActivate and to Active(Knew) when the
\* revocation of K is confirmed; no command changes it in any other way.
C11_KeyStateTransitions == [][C11_KeyStateStep]_vars

\* C11 witness: a key roll has gone all the way: the confirmation of the
\* revocation has just made the class Active with its second key.
C11_RollCompleted ==
    /\ outcome.handle = "child" /\ outcome.type = "KeyRollFinish" /\ outcome.err = "none"
    /\ KeyState(cas["child"]) =
          [state |-> "Active", cur |-> MaxKeys, new |-> NoKey.id, old |-> NoKey.id]

(***************************************************************************)
(* Properties of a key roll                                                *)
(***************************************************************************)
KeyIds == 1..(MaxKeys + 1)

RollState(agg, state, cur, other) ==
    /\ agg # NoAgg
    /\ agg.rc.state = state
    /\ agg.rc.cur.id = cur
    /\ (IF state = "RollOld" THEN agg.rc.old.id ELSE agg.rc.new.id) = other

\* From Active(K1), KeyRollInit with no staging time is accepted and adds a
\* pending key K2 # K1.
C12_InitAccepted ==
    \A h \in ChildHandles :
        (cas[h] # NoAgg /\ cas[h].rc.state = "Active") =>
            LET cmd == keyroll("KeyRollInit", 0, now)
            IN  /\ process_command(cas[h], h, cmd).err = "none"
                /\ RollState(AfterCommand(h, cmd), "RollPending", cas[h].rc.cur.id,
                             cas[h].rc.cur.id + 1)

\* The certificate for the pending key K2 leads to RollNew(K2, K1), and
\* KeyRollActivate with no staging time makes K2 the current key.
C12_RollNewAfterReceipt ==
    \A h \in ChildHandles, k1, k2 \in KeyIds :
        /\ RollState(cas[h], "RollPending", k1, k2) =>
              /\ k2 # k1
              /\ \A res \in ResourceChoices :
                    RollState(AfterCommand(h, upd_received_cert(ta_handle, k2, res, now)),
                              "RollNew", k1, k2)
        /\ RollState(cas[h], "RollNew", k1, k2) =>
              RollState(AfterCommand(h, keyroll("KeyRollActivate", 0, now)),
                        "RollOld", k2, k1)
        /\ RollState(cas[h], "RollOld", k2, k1) =>
              LET a == AfterCommand(h, revoke_key("KeyRollFinish", h, k1))
              IN  k2 # k1 /\ a.rc.state = "Active" /\ a.rc.cur.id = k2

\* The class is Active and what the CA has published is the publication
\* point of its current key.
C12_MovedToCurrent(agg) ==
    /\ agg # NoAgg
    /\ agg.rc.state = "Active"
    /\ agg.published # {}
    /\ agg.published = current_objects(agg, agg.rc.cur.id)

C12_RollOld(agg) == agg # NoAgg /\ agg.rc.state = "RollOld"

\* C12: from Active(K1), KeyRollInit with staging time 0 and the receipt of
\* the new certificate give RollNew(K2, K1) with K2 # K1; KeyRollActivate
\* makes K2 the current key and the end of the roll leaves Active(K2); once
\* K2 is the current key, the class eventually is Active and the published
\* objects of the CA are those of the publication point of its current key.
C12_KeyRollCompletes ==
    /\ [](C12_InitAccepted /\ C12_RollNewAfterReceipt)
    /\ \A h \in ChildHandles :
          C12_RollOld(cas[h]) ~> C12_MovedToCurrent(cas[h])

\* A rolled CA has published after the roll: only the new key publishes.
C12_RolledAndPublished ==
    \E h \in ChildHandles :
        /\ C12_MovedToCurrent(cas[h])
        /\ cas[h].rc.cur.id = 2
        /\ outcome = Outcome(h, "Publish", "none", outcome.events)
        /\ outcome.events # <<>>
        /\ cas[h].roas # {}

StagingTimes == 0..(MaxTime + 1)

\* C13: KeyRollActivate(staging_time) on a class in RollNew before the
\* staging time has elapsed fails: it has an error and no event (no
\* KeyActivated, no KeyRevocationRequested), and the CA with its key state
\* is as it was.
C13_EarlyActivateFails ==
    /\ \A h \in ChildHandles, staging_time \in StagingTimes :
          (/\ cas[h] # NoAgg
           /\ cas[h].rc.state = "RollNew"
           /\ now - cas[h].rc.since < staging_time) =>
              LET cmd == keyroll("KeyRollActivate", staging_time, now)
              IN  /\ process_command(cas[h], h, cmd).err # "none"
                  /\ process_command(cas[h], h, cmd).events = <<>>
                  /\ AfterCommand(h, cmd) = cas[h]
                  /\ KeyState(AfterCommand(h, cmd)) = KeyState(cas[h])
    /\ (outcome.type = "KeyRollActivate" /\ outcome.err # "none") =>
          outcome.events = <<>>

\* KeyRollActivate has just been refused for a class in RollNew whose new
\* key got its certificate at this very time.
C13_RefusedInRollNew ==
    \E h \in ChildHandles :
        /\ outcome = Outcome(h, "KeyRollActivate", "KeyRollActivateNotAllowed", <<>>)
        /\ cas[h].rc.state = "RollNew"
        /\ now - cas[h].rc.since < MaxTime

(***************************************************************************)
(* Properties of what the CAs publish                                      *)
(***************************************************************************)
AtomUris(atoms) == {a.uri : a \in atoms}

\* A delta against the set a CA has declared published and not withdrawn.
DeltaConsistent(declared, delta) ==
    /\ \A w \in delta.withdraws :
          \E o \in declared : o.uri = w.uri /\ hash(o.content) = w.hash
    /\ \A u \in delta.updates :
          \E o \in declared : o.uri = u.uri /\ hash(o.content) = u.hash
    /\ AtomUris(delta.publishes) \cap AtomUris(delta.updates) = {}
    /\ AtomUris(delta.publishes) \cap AtomUris(delta.withdraws) = {}
    /\ AtomUris(delta.updates) \cap AtomUris(delta.withdraws) = {}
    /\ Cardinality(AtomUris(delta.publishes)) = Cardinality(delta.publishes)
    /\ Cardinality(AtomUris(delta.updates)) = Cardinality(delta.updates)
    /\ Cardinality(AtomUris(delta.withdraws)) = Cardinality(delta.withdraws)

IsPublished(event) == event.det.type \in {"Published", "TaPublished"}

\* C19: the delta of every Published event of a CA is consistent with what
\* the CA has published: a withdraw names the URI and hash of an object the
\* CA declared published and has not withdrawn since, an update carries the
\* hash of the object it replaces, and no URI is in two atoms of the delta.
\* Published events come from the Publish command alone.
C19_PublishedDeltaConsistent ==
    /\ \A h \in Handles :
          cas[h] # NoAgg =>
              LET events == process_command(cas[h], h, publish).events
              IN  \A i \in DOMAIN events :
                      /\ IsPublished(events[i])
                      /\ ~is_empty(events[i].det.delta)
                      /\ DeltaConsistent(apply_all(cas[h], SubSeq(events, 1, i - 1)).published,
                                         events[i].det.delta)
    /\ \A i \in DOMAIN outcome.events :
          IsPublished(outcome.events[i]) => outcome.type = "Publish"

\* A Publish has just withdrawn objects of one key and updated one of
\* another.
C19_WithdrawnAndUpdated ==
    /\ outcome.type = "Publish"
    /\ \E i, j \in DOMAIN outcome.events :
          /\ outcome.events[i].det.type = "Published"
          /\ outcome.events[i].det.delta.withdraws # {}
          /\ outcome.events[j].det.type = "Published"
          /\ outcome.events[j].det.delta.updates # {}

\* The manifest of a key lists what the key has published beside it, and
\* that is the CRL and the objects the key has signed, as they are now.
ManifestExact(agg, key) ==
    LET manifests == {o \in published_for_key(agg, key) : o.content.type = "mft"}
        listed    == published_for_key(agg, key) \ manifests
    IN  /\ Cardinality(manifests) = 1
        /\ \A m \in manifests :
              m.content.entries = {<<o.uri.name, hash(o.content)>> : o \in listed}
        /\ listed = signed_objects(agg, key) \cup {crl_object(key)}
        /\ Cardinality({o \in listed : o.content.type = "crl"}) = 1

\* C20: after every Publish, for each key that publishes, the manifest lists
\* exactly the current CRL of the key and every object the key has signed
\* (issued child certificates and ROAs) with the hash of its current
\* content; keys that no longer publish have nothing published.
C20_ManifestExactAfterPublish ==
    \A h \in Handles :
        cas[h] # NoAgg =>
            LET agg == AfterCommand(h, publish)
            IN  /\ \A key \in publishing_keys(agg) : ManifestExact(agg, key)
                /\ {o.uri.key : o \in agg.published} = publishing_keys(agg)

\* After a Publish the child has a ROA on its manifest, the TA a child
\* certificate on its own.
C20_RoaAndCertificateListed ==
    /\ outcome.type = "Publish"
    /\ outcome.events # <<>>
    /\ \E h \in ChildHandles :
          /\ cas[h] # NoAgg /\ cas[ta_handle] # NoAgg
          /\ \E m \in cas[h].published :
                /\ m.content.type = "mft"
                /\ \E e \in m.content.entries : e[1].type = "roa"
                /\ ManifestExact(cas[h], m.uri.key)
          /\ \E m \in cas[ta_handle].published :
                /\ m.content.type = "mft"
                /\ \E e \in m.content.entries : e[1].type = "cer"
                /\ ManifestExact(cas[ta_handle], m.uri.key)

(***************************************************************************)
(* Properties of the flows of the CaServer                                 *)
(***************************************************************************)
\* A commit of a flow has just been refused for a stale version.
StaleCommit ==
    outcome' # outcome /\ outcome'.err = "ConcurrentModification"

\* C15: in the flows of update_entitlements a commit refused with
\* ConcurrentModification is retried with a freshly loaded snapshot, and
\* the error ends the flow only after the bounded number of attempts: the
\* first refusal of a step leaves the flow under way.
C15_StaleCommitRetried == [][StaleCommit => flow'.step # "idle"]_vars

(***************************************************************************)
(* Properties of a repeated Publish                                        *)
(***************************************************************************)
\* For every CA: the Publish that follows a Publish has no error and no
\* events, so there is nothing to commit and nothing for the queue to hear.
C21_SecondPublishEmpty ==
    \A h \in Handles :
        cas[h] # NoAgg =>
            LET first == process_command(cas[h], h, publish)
                agg == apply_all(cas[h], first.events)
                second == process_command(agg, h, publish)
            IN  /\ first.err = "none"
                /\ second = Accepted(<<>>)
                /\ apply_all(agg, second.events) = agg
                /\ listen_all(listen_all(event_queue, first.events), second.events)
                       = listen_all(event_queue, first.events)

\* A Publish of the CaServer that follows a Publish for the same CA leaves
\* every CA as it is.
C21_RepeatedPublishStep ==
    (/\ outcome.type = publish.type
     /\ outcome'.type = publish.type
     /\ outcome'.handle = outcome.handle
     /\ <<cas', outcome'>> # <<cas, outcome>>) =>
        /\ outcome'.events = <<>>
        /\ cas' = cas

\* C21: Publish is idempotent: when it is issued twice in succession, with
\* no other command in between, the second has an empty delta, no Published
\* event is committed, the version of the CA stays and no work item is
\* queued.
C21_PublishIdempotent ==
    []C21_SecondPublishEmpty /\ [][C21_RepeatedPublishStep]_vars

\* A CA with objects published has just been sent a Publish that had
\* nothing to publish.
C21_NothingToPublish ==
    /\ outcome.type = publish.type
    /\ outcome.events = <<>>
    /\ outcome.handle \in ChildHandles
    /\ \E o \in cas[outcome.handle].published : o.content.type = "roa"

(***************************************************************************)
(* Properties of the creation of aggregates                                *)
(***************************************************************************)
\* The handle has a log on disk.
C29_Exists(h) == log[h] # <<>>

\* The log of every handle the store has starts with its init event and
\* has no other init event.
C29_OneInit ==
    \A h \in Handles : C29_Exists(h) =>
        /\ log[h][1].det.type = "Ini" /\ log[h][1].handle = h
        /\ \A i \in 2..Len(log[h]) : log[h][i].det.type # "Ini"

\* Thread t returns from init_ta or init_ca in this step.
C29_Returns(t, op) == pc[t] = "idle" /\ pc'[t] = "done" /\ loc'[t].op = op

\* init_ta and init_ca for a handle that exists fail with their error and
\* leave log, snapshot and cache of every handle as they are; for a handle
\* that does not exist they add the log with the one init event.  No step
\* removes or replaces an event of a log.  A call on the trust anchor gets
\* it exactly when init_ta has gone before.
C29_InitStep ==
    /\ \A t \in Threads :
          /\ C29_Returns(t, "init_ta") =>
                IF C29_Exists(ta_handle)
                THEN /\ loc'[t].result = "TrustAnchorInitialisedError"
                     /\ UNCHANGED <<log, snapshot, cache>>
                ELSE /\ loc'[t].result = "ok"
                     /\ log' = [log EXCEPT ![ta_handle] = <<IniDet_init_ta(ta_handle)>>]
                     /\ UNCHANGED snapshot
          /\ C29_Returns(t, "init_ca") =>
                \E h \in ChildHandles :
                    IF C29_Exists(h)
                    THEN /\ loc'[t].result = "DuplicateCa"
                         /\ UNCHANGED <<log, snapshot, cache>>
                    ELSE /\ loc'[t].result = "ok"
                         /\ Len(log'[h]) = 1 /\ log'[h][1].det.type = "Ini"
                         /\ \A other \in Handles \ {h} : log'[other] = log[other]
                         /\ UNCHANGED snapshot
          /\ (pc[t] = "idle" /\ pc'[t] = "loaded") => C29_Exists(ta_handle)
          /\ (pc[t] = "idle" /\ pc'[t] = "done"
                 /\ loc'[t].op \notin {"init_ta", "init_ca"}) =>
                (~C29_Exists(ta_handle) /\ loc'[t].result = "TrustAnchorNotInitialisedError")
    /\ \A h \in Handles : C29_Exists(h) =>
          /\ Len(log'[h]) >= Len(log[h])
          /\ SubSeq(log'[h], 1, Len(log[h])) = log[h]

\* C29: creating an aggregate for a handle that exists fails (init_ta:
\* TrustAnchorInitialisedError, init_ca: DuplicateCa) and leaves the log
\* and the snapshot of the aggregate as they are, so that a handle has one
\* init event for its whole life; get_trust_anchor fails before init_ta
\* and succeeds after it.
C29_DuplicateInitFails == []C29_OneInit /\ [][C29_InitStep]_vars

\* C29 witness: a second init_ta has just failed on a trust anchor that has
\* a snapshot and events after its init event, and the child exists.
C29_SecondInitTaFailed ==
    /\ \E t \in Threads :
          /\ pc[t] = "done" /\ loc[t].op = "init_ta"
          /\ loc[t].result = "TrustAnchorInitialisedError"
    /\ Len(log[ta_handle]) >= 2 /\ snapshot[ta_handle] # NoAgg
    /\ C29_Exists("child")

(***************************************************************************)
(* Properties of AddChild                                                  *)
(***************************************************************************)
\* C30: for every CA, AddChild is rejected with no event, and leaves the
\* CA as it is, when the child exists under the CA or the resources asked
\* for are not contained in the resources on the CA's certificate, and is
\* accepted with the one ChildAdded event otherwise; a child asking for
\* all resources is accepted only by a CA that holds all resources.
C30_AddChildChecked ==
    \A h \in Handles : cas[h] # NoAgg =>
        \A child \in ChildHandles, res \in SUBSET all_resources :
            LET cmd == add_child(child, "tok1", res)
                r   == process_command(cas[h], h, cmd)
            IN  /\ (has_child(cas[h], child) \/ ~(res \subseteq current_resources(cas[h])))
                      => /\ r.err # "none" /\ r.events = <<>>
                         /\ AfterCommand(h, cmd) = cas[h]
                /\ (~has_child(cas[h], child) /\ res \subseteq current_resources(cas[h]))
                      => /\ r = Accepted(<<child_added(h, cas[h].version, child, "tok1", res)>>)
                         /\ AfterCommand(h, cmd).children[child]
                               = [token |-> "tok1", res |-> res]
                /\ (res = all_resources /\ r.err = "none")
                      => current_resources(cas[h]) = all_resources

\* C30 witness: the trust anchor has just rejected an AddChild for the child
\* it has, and the child, a CA with a certificate for part of the
\* resources, would reject a child asking for all resources.
C30_DuplicateChildRejected ==
    /\ outcome = Outcome(ta_handle, "AddChild", "DuplicateChild", <<>>)
    /\ has_child(cas[ta_handle], "child")
    /\ cas["child"] # NoAgg /\ cas["child"].rc.state = "Active"
    /\ cas["child"].rc.cur.res = {"v4a", "v4b"}
    /\ process_command(cas["child"], "child",
                       add_child("child", "tok1", all_resources)).err = "MissingResources"

(***************************************************************************)
(* Properties of the route authorizations                                  *)
(***************************************************************************)
\* The authorizations a CA has ROAs for.
C22_Authorizations(agg) == {roa.auth : roa \in agg.roas}

\* The sets of definitions that the CA's current certificate covers, with a
\* max length in range, none of which the CA has yet.
C22_NewSets(agg) ==
    {S \in SUBSET RouteAuths :
        /\ S # {}
        /\ \A a \in S :
              /\ a.prefix.atom \in current_resources(agg)
              /\ a.prefix.len <= effective_max_length(a.prefix, a.max_length)
              /\ effective_max_length(a.prefix, a.max_length) <= addr_bits(a.prefix.fam)
              /\ a \notin C22_Authorizations(agg)}

C24_Received(h) ==
    /\ flow.step = "receive" /\ flow.handle = h
    /\ outcome'.handle = h /\ outcome'.type = "UpdateReceivedCert"
    /\ outcome'.err = "none"

\* The certificate is the one requested for the resources the parent
\* entitles the CA to, the ROAs it no longer covers are removed by an event
\* of that commit and the others stay.
C24_ReceiveStep ==
    \A h \in ChildHandles : C24_Received(h) =>
        LET lost == {roa \in cas[h].roas : roa.prefix.atom \notin flow.res}
        IN  /\ cas[h].rc.requested /\ ~cas'[h].rc.requested
            /\ outcome'.events[1].det.type = "CertificateReceived"
            /\ cas'[h].rc.cur.res = flow.res
            /\ cas'[h].roas = cas[h].roas \ lost
            /\ lost # {} =>
                  \E i \in 1..Len(outcome'.events) :
                      /\ outcome'.events[i].det.type = "RoasUpdated"
                      /\ outcome'.events[i].det.removed = {roa.auth : roa \in lost}

\* What the next Publish of a CA does about its ROAs: the ROA objects
\* published for ROAs that are gone are withdrawn with their hash, the
\* published set has afterwards the objects of the CA's ROAs and no other
\* ROA object, none of them for a prefix off the current certificate, and
\* with no ROA and no issued certificate it is the CRL and the manifest
\* of the current key.
C24_PublishAfter ==
    \A h \in ChildHandles : (cas[h] # NoAgg /\ cas[h].rc.state = "Active") =>
        LET r     == process_command(cas[h], h, publish)
            after == apply_all(cas[h], r.events)
            key   == cas[h].rc.cur.id
            gone  == {o \in cas[h].published :
                         o.content.type = "roa" /\ o.content.auth \cap cas[h].roas = {}}
        IN  /\ r.err = "none"
            /\ \A o \in gone :
                  \E i \in 1..Len(r.events) :
                      Withdraw(o.uri, hash(o.content)) \in r.events[i].det.delta.withdraws
            /\ {o \in after.published : o.content.type = "roa"}
                   = {roa_object(roa) : roa \in cas[h].roas}
            /\ \A o \in after.published : \A roa \in o.content.auth :
                  roa.prefix.atom \in current_resources(cas[h])
            /\ (cas[h].roas = {} /\ \A c \in ChildHandles : cas[h].issued[c] = {}) =>
                  after.published = {crl_object(key), manifest_object(key, {})}

\* C24: when the parent has shrunk the resources of a child so that the
\* prefix of a ROA is no longer certified, update_entitlements of the child
\* has a certificate for the new resources requested and received and
\* removes the ROA; the next Publish withdraws its object, and the
\* published set holds no ROA for the lost prefix: only CRL and manifest
\* when no covered authorization remains.
C24_ShrinkRemovesRoa == []C24_PublishAfter /\ [][C24_ReceiveStep]_vars

\* C24 witness: the child holds a certificate for v4a only, has no ROA, and
\* its Publish has just withdrawn the object of the ROA for a prefix in v4b,
\* leaving the CRL and the manifest.
C24_RoaWithdrawn ==
    /\ outcome.handle = "child" /\ outcome.type = publish.type
    /\ Len(outcome.events) = 1
    /\ \E w \in outcome.events[1].det.delta.withdraws :
          w.uri.name.type = "roa" /\ \A a \in w.uri.name.auth : a.prefix.atom = "v4b"
    /\ cas["child"].rc.cur.res = {"v4a"}
    /\ cas["child"].roas = {}
    /\ cas["child"].published =
          {crl_object(cas["child"].rc.cur.id),
           manifest_object(cas["child"].rc.cur.id, {})}

\* The commits of update_entitlements come in the order of its code: the
\* flow goes to "issue" by the commit of UpdateEntitlements on the child,
\* to "receive" by the commit of CertifyChild on the parent for the request
\* of that commit, and ends by the commit of UpdateReceivedCert on the
\* child with the certificate the parent has issued.
C25_FlowStep ==
    /\ flow'.step = "issue" /\ flow' # flow =>
          /\ flow.step = "idle" \/ (flow.step = "entitle" /\ flow.handle = flow'.handle)
          /\ outcome' = Outcome(flow'.handle, "UpdateEntitlements", "none", outcome'.events)
          /\ \E i \in 1..Len(outcome'.events) :
                outcome'.events[i].det
                    = [type |-> "CertificateRequested", key |-> flow'.key, res |-> flow'.res]
          /\ flow'.res = list(cas[ta_handle], flow'.handle, flow'.token).res
          /\ cas' = [cas EXCEPT ![flow'.handle] = apply_all(@, outcome'.events)]
    /\ flow'.step = "receive" /\ flow' # flow =>
          /\ flow.step = "issue" /\ flow' = [flow EXCEPT !.step = "receive"]
          /\ outcome' = Outcome(ta_handle, "CertifyChild", "none", outcome'.events)
          /\ Len(outcome'.events) = 1
          /\ outcome'.events[1].det
                = [type |-> "CertificateIssued", child |-> flow.handle,
                   key |-> flow.key, res |-> flow.res]
          /\ cas' = [cas EXCEPT ![ta_handle] = apply_all(@, outcome'.events)]
    /\ flow.step = "receive" /\ flow' # flow =>
          /\ flow'.step = "idle"
          /\ outcome'.handle = flow.handle /\ outcome'.type = "UpdateReceivedCert"
          /\ outcome'.err = "none" =>
                /\ outcome'.events[1].det.type = "CertificateReceived"
                /\ cas' = [cas EXCEPT ![flow.handle] = apply_all(@, outcome'.events)]
                /\ cas'[flow.handle].rc.cur = [id |-> flow.key, res |-> flow.res]
    /\ outcome' # outcome /\ outcome'.type = "CertifyChild" => flow.step = "issue"
    /\ outcome' # outcome /\ outcome'.type = "UpdateReceivedCert" => flow.step = "receive"

\* update_entitlements run from a state on its own: the three commits one
\* after the other leave the current key of the child with a certificate
\* for exactly the resources the parent entitles the child to.
C25_RunAlone ==
    \A h \in ChildHandles :
        (/\ flow.step \in {"idle", "entitle"}
         /\ cas[h] # NoAgg /\ cas[ta_handle] # NoAgg /\ cas[h].parents # {}) =>
        LET parent  == CHOOSE p \in cas[h].parents : TRUE
            ent     == list(cas[ta_handle], h, parent.token)
            first   == process_command(cas[h], h, upd_entitlements(parent.handle, ent.res))
            child1  == apply_all(cas[h], first.events)
            key     == child1.rc.cur.id
            second  == process_command(cas[ta_handle], ta_handle,
                                       certify_child(h, parent.token, key, ent.res))
            ta1     == apply_all(cas[ta_handle], second.events)
            third   == process_command(child1, h,
                                       upd_received_cert(ta_handle, key, ent.res, now))
            child2  == apply_all(child1, third.events)
        IN  ent.err = "none" =>
              /\ first.err = "none"
              /\ first.events = <<>> =>
                    cas[h].rc.cur.res = cas[ta_handle].children[h].res
              /\ first.events # <<>> =>
                    /\ second.err = "none" /\ third.err = "none"
                    /\ \E cert \in ta1.issued[h] : cert.key = key /\ cert.res = ent.res
                    /\ child2.rc.cur.res = ta1.children[h].res
                    /\ ~child2.rc.requested

\* C25: a successful update_entitlements of a child of the (embedded) trust
\* anchor, as ca_add_parent runs it, commits UpdateEntitlements on the
\* child, then CertifyChild on the parent for the certificate requested,
\* then UpdateReceivedCert on the child for the certificate issued; when it
\* returns, the current key of the child holds a certificate for exactly
\* the resources the parent entitles it to.
C25_EntitlementsInOrder == []C25_RunAlone /\ [][C25_FlowStep]_vars

\* C25 witness: ca_add_parent has run update_entitlements to its end: the
\* child has recorded the certificate the trust anchor issued, for both
\* blocks it is entitled to.
C25_CertificateReceived ==
    /\ outcome.handle = "child" /\ outcome.type = "UpdateReceivedCert"
    /\ outcome.err = "none" /\ flow.step = "idle"
    /\ cas["child"].version = 5
    /\ cas["child"].rc.cur.res = {"v4a", "v4b"}
    /\ cas[ta_handle].children["child"].res = {"v4a", "v4b"}
    /\ \E cert \in cas[ta_handle].issued["child"] :
          cert.key = cas["child"].rc.cur.id /\ cert.res = {"v4a", "v4b"}

\* A step of Routes::add for an authorization that is in the map.
C23_DuplicateAdd ==
    \E auth \in RouteAuths : Routes_has(routes, auth) /\ RoutesAdd(auth)

\* C23: the route authorizations are a set keyed by the triple (ASN,
\* prefix, optional max length) without duplicates: adding a triple that is
\* already authorized is refused and leaves the stored entry and its
\* meta-information as they are, and no triple is ever stored twice.
C23_DuplicateRefused ==
    /\ [](\A a, b \in routes : a.auth = b.auth => a = b)
    /\ [][C23_DuplicateAdd => routes' = routes]_vars

(***************************************************************************)
(* Properties of the event queue and its drain                             *)
(***************************************************************************)
\* The Delta work items of the events of a commit, in their order.
RECURSIVE C26_DeltaItems(_)
C26_DeltaItems(events) ==
    IF events = <<>> THEN <<>>
    ELSE (IF Head(events).det.type \in {"Published", "TaPublished"}
          THEN <<QueueEvent_Delta(Head(events).handle, Head(events).det.delta)>>
          ELSE <<>>) \o C26_DeltaItems(Tail(events))

\* The Delta work items of a queue, in their order.
C26_Deltas(q) == SelectSeq(q, LAMBDA item : item.type = "Delta")

\* A published set after the deltas of the items (queued or sent) of a CA.
RECURSIVE C26_Replayed(_, _, _)
C26_Replayed(objects, items, h) ==
    IF items = <<>> THEN objects
    ELSE C26_Replayed(IF Head(items).handle = h
                      THEN apply_delta(objects, Head(items).delta) ELSE objects,
                      Tail(items), h)

\* What was passed to publish and what is queued for it account for the
\* published set of every CA: its deltas, each once and in order.
C26_Accounted ==
    \A h \in Handles :
        C26_Replayed(C26_Replayed({}, sent, h), C26_Deltas(event_queue), h)
            = IF cas[h] = NoAgg THEN {} ELSE cas[h].published

\* A commit puts one Delta item at the end of the queue for each of its
\* Published or TaPublished events, with the event's handle and delta, and
\* calls no publish; a turn of the drain takes the first item off and,
\* when it is a Delta item, passes it to publish once; nothing else
\* changes the queue or calls publish.
C26_QueueStep ==
    /\ <<cas, outcome>>' # <<cas, outcome>> =>
          /\ C26_Deltas(event_queue')
                = C26_Deltas(event_queue) \o C26_DeltaItems(outcome'.events)
          /\ \E n \in 0..Len(outcome'.events) :
                Len(event_queue') = Len(event_queue) + n
                /\ SubSeq(event_queue', 1, Len(event_queue)) = event_queue
          /\ sent' = sent
    /\ <<cas, outcome>>' = <<cas, outcome>> /\ event_queue' # event_queue =>
          /\ event_queue # <<>> /\ event_queue' = Tail(event_queue)
          /\ IF Head(event_queue).type = "Delta"
             THEN /\ Len(sent') = Len(sent) + 1
                  /\ SubSeq(sent', 1, Len(sent)) = sent
                  /\ sent'[Len(sent')].handle = Head(event_queue).handle
                  /\ sent'[Len(sent')].delta = Head(event_queue).delta
             ELSE sent' = sent
    /\ sent' # sent => event_queue' # event_queue

\* The queue is empty again and again: every item that is on the queue
\* leaves it, which by the steps above it does by a turn of the drain that
\* passes it to publish when it is a Delta item.
C26_Passed == []<>(event_queue = <<>>)

\* C26: every committed Published or TaPublished event of a CA puts
\* exactly one Delta work item with the handle of the CA and the delta of
\* the event on the queue; every such item is eventually popped by the
\* drain of the scheduler and passed to publish of the Publication Server
\* exactly once; events of other kinds cause no publish call.
C26_DeltasQueuedAndPassed ==
    /\ []C26_Accounted
    /\ [][C26_QueueStep]_vars
    /\ C26_Passed

\* C26 witness: deltas of the trust anchor and of the child have been
\* passed to publish, the child's ROA among them, and the queue is drained.
C26_AllPassed ==
    /\ event_queue = <<>> /\ ~event_run
    /\ \E i, j \in DOMAIN sent :
          /\ sent[i].handle = ta_handle /\ sent[j].handle = "child"
          /\ \E p \in sent[j].delta.publishes : p.uri.name.type = "roa"
    /\ cas["child"] # NoAgg /\ cas["child"].roas # {}
    /\ C26_Replayed({}, sent, "child") = cas["child"].published

\* How often a work item is on a queue.
C27_Count(q, item) == Cardinality({i \in DOMAIN q : q[i] = item})

\* A turn of the drain in which publish fails for the item taken off.
C27_PublishFailed ==
    /\ sent' # sent
    /\ sent'[Len(sent')].result = "RemotePeerError"

\* C27: a work item whose handling fails with an error of the remote peer
\* is not lost: it is on the queue again after the failed turn, to be
\* attempted on the next tick of the scheduler.
C27_FailedItemRescheduled ==
    [][C27_PublishFailed =>
          C27_Count(event_queue', Head(event_queue))
              >= C27_Count(event_queue, Head(event_queue))]_vars

\* A turn of the drain whose publish fails leaves the run under way and
\* the rest of the queue as it is, and a run of the drain ends only on an
\* empty queue; a turn of the refresh, failed or not, takes the one CA off
\* the CAs to do and leaves the run under way, and a run of the refresh
\* ends only when no CA is left to do; a failure in the rest of
\* update_entitlements ends neither.
C28_RunStep ==
    /\ (sent' # sent /\ sent'[Len(sent')].result # "ok") =>
          event_run' /\ event_queue' = Tail(event_queue)
    /\ (event_run /\ ~event_run') => event_queue = <<>>
    /\ (refresh_run.on /\ refresh_run' # refresh_run) =>
          IF refresh_run'.on
          THEN \E h \in refresh_run.todo :
                  /\ refresh_run'.todo = refresh_run.todo \ {h}
                  /\ refresh_run'.logged \in {refresh_run.logged,
                                              refresh_run.logged \cup {h}}
          ELSE refresh_run.todo = {}
    /\ (outcome' # outcome /\ outcome'.err # "none") =>
          /\ refresh_run'.on = refresh_run.on
          /\ refresh_run'.todo \in {refresh_run.todo} \cup
                {refresh_run.todo \ {h} : h \in refresh_run.logged' \ refresh_run.logged}

\* A run that is not under way can start, and a run under way has its
\* next turn or its end open to it whenever no update_entitlements is in
\* the middle of its commits.
C28_RunsGoOn ==
    /\ ~event_run => ENABLED event_sh_start
    /\ event_run => ENABLED (event_sh_pop \/ event_sh_end)
    /\ ~refresh_run.on => ENABLED ca_refresh_start
    /\ (refresh_run.on /\ refresh_run.todo = {} /\ flow.step = "idle")
          => ENABLED ca_refresh_end
    /\ refresh_run.logged \cap refresh_run.todo = {}

\* C28: in the background runs of the scheduler a failure on one work
\* item (drain of the queue) or on one CA (refresh of the entitlements
\* of all CAs) is logged and does not end the run: the remaining work
\* items and CAs are processed in the same run, and the periodic task
\* keeps running on later ticks.
C28_FailureDoesNotEndRun ==
    /\ []C28_RunsGoOn
    /\ [][C28_RunStep]_vars
    /\ (event_run ~> (event_queue = <<>> /\ ~event_run))
    /\ []<>event_run

\* C28 witness: a publish that failed was followed by the publish of the
\* next work item, and a run of the refresh that has logged the error of
\* the child has gone on to the trust anchor and has no CA left to do.
C28_WentOnAfterFailures ==
    /\ \E i \in DOMAIN sent :
          i < Len(sent) /\ sent[i].result = "RemotePeerError" /\ sent[i + 1].result = "ok"
    /\ refresh_run = [on |-> TRUE, todo |-> {}, logged |-> {"child"}]
    /\ cas[ta_handle] # NoAgg /\ cas["child"] # NoAgg

(***************************************************************************)
(* Properties of concurrent publish calls                                  *)
(***************************************************************************)
ValidationErrors == {"ObjectAlreadyPresent", "NoObjectForHashAndOrUri", "UriOutsideJail"}

disjoint(a, b) == delta_uris(a) \cap delta_uris(b) = {}

\* The calls of both threads have loaded the publisher at the same version.
LoadedAtSameVersion(t, u) ==
    /\ t # u
    /\ pub_call[t].first > 0
    /\ pub_call[t].first = pub_call[u].first

\* The objects are as the delta leaves them.
Reflects(objects, delta) ==
    /\ \A a \in delta.publishes \cup delta.updates : objects[a.uri] = a.content
    /\ \A a \in delta.withdraws : objects[a.uri] = NoFile

Succeeded(t) == pub_call[t].pc = "done" /\ pub_call[t].result = "ok"

\* What holds of two calls that loaded the publisher at the same version V.
C14_CallsFromSameVersion ==
    \A t, u \in Threads :
        LoadedAtSameVersion(t, u) =>
            LET V == pub_call[t].first
            IN  /\ pub_call[t].created \in {0, V + 1, V + 2}
                /\ pub_call[t].created = V + 1 => pub_call[t].refused = 0
                /\ pub_call[t].created # 0 => pub_call[t].created # pub_call[u].created
                /\ pub_call[t].refused > 0 =>
                      /\ pub_call[t].refused = 1
                      /\ pub_call[u].created = V + 1
                      /\ pub_call[t].pc # "load" =>
                            /\ pub_call[t].version = V + 1
                            /\ pub_call[t].pc \in {"process", "commit"} =>
                                  pub_call[t].objects = pub_agg.objects
                      /\ pub_call[t].created \in {0, V + 2}
                /\ pub_call[t].pc = "done" =>
                      /\ pub_call[t].result \in {"ok"} \cup ValidationErrors
                      /\ pub_call[t].result = "ok" <=> pub_call[t].created # 0
                /\ (Succeeded(t) /\ Succeeded(u)
                        /\ disjoint(pub_call[t].delta, pub_call[u].delta)) =>
                      /\ pub_agg.version = V + 2
                      /\ Reflects(pub_agg.objects, pub_call[t].delta)
                      /\ Reflects(pub_agg.objects, pub_call[u].delta)

\* A step that changes the stored publisher is the commit of a call that
\* has loaded the publisher as it is stored and has verified its delta
\* against it; a commit of a call that has loaded an older version is
\* refused and the call loads again.
C14_CommitStep ==
    /\ pub_agg' # pub_agg =>
          \E t \in Threads :
              /\ pub_call[t].pc = "commit"
              /\ pub_call[t].version = pub_agg.version
              /\ pub_call[t].objects = pub_agg.objects
              /\ verify(pub_agg.objects, pub_call[t].delta, p_base_uri) = {"ok"}
              /\ pub_agg' = [version |-> pub_agg.version + 1,
                             objects |-> update_files(pub_agg.objects, pub_call[t].delta)]
              /\ pub_call'[t].result = "ok"
    /\ \A t \in Threads :
          (pub_call[t].pc = "commit" /\ pub_call'[t] # pub_call[t]
                /\ pub_call[t].version # pub_agg.version) =>
              /\ pub_agg' = pub_agg
              /\ pub_call'[t].pc = "load"
              /\ pub_call'[t].refused = pub_call[t].refused + 1

\* C14: of two threads that load publisher p at version V and call Publish,
\* one commits V to V+1; the other is refused with ConcurrentModification,
\* loads again at V+1, has its delta verified against the state at V+1 and
\* commits V+1 to V+2 or ends with a validation error; no delta is applied
\* to a state other than the one it was verified against, and when both
\* calls with disjoint deltas succeed the objects reflect both deltas.
C14_ConcurrentPublish ==
    []C14_CallsFromSameVersion /\ [][C14_CommitStep]_vars

\* Both calls loaded the same version, one was refused once, both succeeded.
C14_BothSucceeded ==
    \E t, u \in Threads :
        /\ LoadedAtSameVersion(t, u)
        /\ disjoint(pub_call[t].delta, pub_call[u].delta)
        /\ Succeeded(t) /\ Succeeded(u)
        /\ pub_call[t].refused = 1
        /\ pub_call[t].delta.withdraws # {}
        /\ pub_call[u].delta.updates # {}

(***************************************************************************)
(* Properties of the RRDP state and of List                                *)
(***************************************************************************)
\* What a publish delta of a publisher does to the RRDP state, for every
\* result the repository can give.
C16_PublishOutcomes ==
    \A handle \in PubHandles, delta \in PublishDeltas :
        \A out \in handle_delta_outcomes(handle, delta) :
            LET rrdp == rrdp_after(out.result, rrdp_state, delta)
            IN  IF out.result = "ok"
                THEN /\ rrdp.serial = serial + 1
                     /\ rrdp.deltas # <<>> =>
                           Head(rrdp.deltas) = [serial |-> serial + 1, delta |-> delta]
                ELSE rrdp = rrdp_state

\* The deltas kept are filed under the serials down from the current one.
C16_DeltasUnderSerials ==
    \A i \in DOMAIN deltas : deltas[i].serial = serial - i + 1

MostRecentWithin(ds, snap) ==
    LET fits == {n \in 0..Len(ds) :
                    /\ n <= MaxDeltas
                    /\ deltas_size(SubSeq(ds, 1, n)) <= snapshot_size(snap)}
    IN  SubSeq(ds, 1, CHOOSE n \in fits : \A m \in fits : m <= n)

current_of(handle) == {<<u, hash(files[u])>> : u \in {v \in Uris : owner[v] = handle}}

\* C18: the RRDP snapshot is the previous snapshot with the accepted delta
\* applied and holds exactly the current objects of all publishers; List
\* for a publisher returns exactly the (URI, hash) of the objects it has
\* published and not withdrawn.
C18_SnapshotAndListCurrent ==
    /\ rrdp_snapshot = files
    /\ \A u \in Uris :
          rrdp_snapshot[u] # NoFile <=>
              \E handle \in PubHandles : <<u, hash(rrdp_snapshot[u])>> \in current_of(handle)
    /\ \A handle \in PubHandles :
          publishers[handle] # NoPublisher =>
              handle_list(handle) = [result |-> "ok", list |-> current_of(handle)]
    /\ \A handle \in PubHandles, delta \in PublishDeltas :
          \A out \in handle_delta_outcomes(handle, delta) :
              out.result = "ok" =>
                  rrdp_after(out.result, rrdp_state, delta).snapshot = out.files

\* Two publishers have objects, one of them after a withdraw.
C18_TwoPublishersListed ==
    /\ \A handle \in PubHandles :
          publishers[handle] # NoPublisher /\ current_of(handle) # {}
    /\ \E i \in DOMAIN deltas : deltas[i].delta.withdraws # {}
    /\ reply.result = "ok"

(***************************************************************************)
(* Properties of the deactivation of a publisher                           *)
(***************************************************************************)
C31_Deactivated(h) == publishers[h] # NoPublisher /\ publishers[h].deactivated

\* A deactivated publisher has no object, neither among the files nor in
\* the RRDP snapshot, lists nothing, and every Publish for it is rejected
\* with Deactivated and leaves the files as they are.
C31_NothingLeft ==
    \A h \in PubHandles : C31_Deactivated(h) =>
        /\ \A u \in Uris : owner[u] # h
        /\ \A u \in Uris :
              is_under(u, publishers[h].base_uri)
              => files[u] = NoFile /\ rrdp_snapshot[u] = NoFile
        /\ handle_list(h) = [result |-> "ok", list |-> {}]
        /\ \A d \in PublishDeltas :
              handle_delta_outcomes(h, d) = {[result |-> "Deactivated", files |-> files]}

\* DeactivatePublisher for a publisher leaves it in place, deactivated and
\* with its jail, and does not touch the objects of the others; a
\* deactivated publisher stays deactivated, and a Publish for it changes
\* neither the files nor the RRDP state.
C31_DeactivateStep ==
    \A h \in PubHandles :
        /\ (deactivate_publisher(h) /\ publishers[h] # NoPublisher) =>
              /\ C31_Deactivated(h)'
              /\ publishers'[h].base_uri = publishers[h].base_uri
              /\ \A u \in Uris : owner[u] # h => files'[u] = files[u]
              /\ \A u \in Uris : owner[u] = h => files'[u] = NoFile
        /\ C31_Deactivated(h) => C31_Deactivated(h)'
        /\ C31_Deactivated(h) =>
              \A d \in PublishDeltas :
                  handle_delta(h, d) =>
                      /\ reply' = Reply(h, "Deactivated")
                      /\ UNCHANGED <<files, owner, serial, rrdp_snapshot, deltas>>

C32_NothingToDeactivate(h) == publishers[h] = NoPublisher \/ publishers[h].deactivated

\* C32: removing (deactivating) a publisher through the API is idempotent:
\* every call reports success, and a call for a handle that does not exist
\* or that was deactivated before leaves the state of the server as it is.
C32_DeactivateIdempotent ==
    [][\A h \in PubHandles :
          endpoints_deactivate_publisher(h) =>
              /\ response' = api_ok
              /\ C32_NothingToDeactivate(h) =>
                    UNCHANGED <<publishers, files, owner, serial, rrdp_snapshot,
                                deltas, accepted>>]_vars

C36_ValidationCodes ==
    {"InvalidJson", "InvalidCms", "InvalidPublisherRequest", "InvalidBaseUri",
     "InvalidHandle", "DuplicateHandle", "UnknownPublisher", "PublisherDeactivated",
     "NoObjectForHashAndOrUri", "ObjectAlreadyPresent", "UriOutsideJail"}

\* C36: the API maps every error to the HTTP status fixed for its class:
\* a validation error to 400 or 403, ConcurrentModification to 409, a signer
\* or persistence error to 500, an error of a remote peer to 502.
C36_StatusOfClass ==
    /\ response.code \in C36_ValidationCodes
          => response.status \in {"BAD_REQUEST", "FORBIDDEN"}
    /\ response.code = "ConcurrentModification" => response.status = "CONFLICT"
    /\ response.code \in {"SigningError", "Persistence"}
          => response.status = "INTERNAL_SERVER_ERROR"
    /\ response.code = "PubClientServerError"
          => response.status = "BAD_GATEWAY"

(***************************************************************************)
(* Properties of a delta that names a URI twice                            *)
(***************************************************************************)
\* The delta has more atoms than URIs.
C33_TouchesTwice(d) == delta_size(d) > Cardinality(delta_uris(d))

\* C33: a Publish delta in which the same URI occurs in more than one atom
\* (any combination of publish, update and withdraw) is rejected as a
\* validation error and changes nothing.
C33_SameUriTwiceRejected ==
    \A p \in PubHandles, d \in PublishDeltas :
        (Active(p) /\ C33_TouchesTwice(d)) =>
            \A out \in handle_delta_outcomes(p, d) :
                /\ out.result \in {"UriOutsideJail", "ObjectAlreadyPresent",
                                   "NoObjectForHashAndOrUri"}
                /\ out.files = files

(***************************************************************************)
(* Properties of the sync of a publication client                          *)
(***************************************************************************)
\* The listing that describes a directory: URI and hash of every file.
C35_ListingOf(dir) == {<<u, hash(dir[u])>> : u \in {v \in Uris : dir[v] # NoFile}}

C35_EmptyDelta == [publishes |-> {}, updates |-> {}, withdraws |-> {}]

\* For every publisher and every directory it can have, the delta derived
\* from the listing of the server is exact, names every URI at most once,
\* is accepted for an active publisher, and leads to the listing of the
\* directory, from which the next delta is empty.
C35_DeltaExact ==
    \A h \in PubHandles :
        publishers[h] # NoPublisher =>
            \A dir \in Dirs(publishers[h].base_uri) :
                LET listing == handle_list(h).list
                    d == create_delta(listing, crawl_incl_rsync_base(dir))
                IN  /\ d.withdraws =
                          {Withdraw(p[1], p[2]) : p \in {q \in listing : dir[q[1]] = NoFile}}
                    /\ d.publishes =
                          {Publish(u, dir[u]) :
                              u \in {v \in Uris : /\ dir[v] # NoFile
                                                  /\ \A q \in listing : q[1] # v}}
                    /\ d.updates =
                          {Update(p[1], dir[p[1]], p[2]) :
                              p \in {q \in listing : /\ dir[q[1]] # NoFile
                                                     /\ q[2] # hash(dir[q[1]])}}
                    /\ delta_size(d) = Cardinality(delta_uris(d))
                    /\ Active(h) =>
                          \A out \in handle_delta_outcomes(h, d) :
                              /\ out.result = "ok"
                              /\ Repository_list(out.files, publishers[h].base_uri)
                                    = C35_ListingOf(dir)
                              /\ create_delta(C35_ListingOf(dir),
                                              crawl_incl_rsync_base(dir)) = C35_EmptyDelta

\* After a sync the server has accepted, it lists the directory, and the
\* delta of a further sync of that directory is empty.
C35_SyncStep ==
    \A h \in PubHandles :
        \A dir \in Dirs(IF publishers[h] = NoPublisher THEN <<>>
                        ELSE publishers[h].base_uri) :
            (sync_dir(h, dir) /\ reply'.result = "ok") =>
                /\ handle_list(h)' = [result |-> "ok", list |-> C35_ListingOf(dir)]
                /\ create_delta(handle_list(h).list, crawl_incl_rsync_base(dir))'
                      = C35_EmptyDelta

\* C35: create_delta turns the listing of the server into the content of
\* the local directory: a withdraw for exactly each listed URI with no file
\* on disk, a publish for exactly each file whose URI is not listed, an
\* update carrying the listed hash for exactly each file whose hash differs
\* from the listed one, no atom for identical files, each URI at most once;
\* after the server applies it the listing equals the directory and a
\* second sync yields an empty delta.
C35_SyncReachesDirectory == []C35_DeltaExact /\ [][C35_SyncStep]_vars

\* C35 witness: the server has accepted a sync whose delta updates one file
\* and withdraws another.
C35_SyncedWithUpdateAndWithdraw ==
    /\ sync.result = "ok"
    /\ sync.delta.updates # {} /\ sync.delta.withdraws # {}
    /\ handle_list(sync.handle).list = C35_ListingOf(sync.dir)

(***************************************************************************)
(* Properties of update_entitlements when the entitlement has not changed  *)
(***************************************************************************)
\* The CA is the trust anchor.
C37_IsTa(h) == cas[h] # NoAgg /\ cas[h].isTa

\* The parent lists for the CA the resources of the certificate it holds.
C37_SameEntitlements(h) ==
    /\ cas[h] # NoAgg /\ cas[ta_handle] # NoAgg
    /\ ~cas[h].isTa /\ cas[h].parents # {}
    /\ cas[h].rc.state \notin {"None", "Pending"}
    /\ LET parent == CHOOSE p \in cas[h].parents : TRUE
           ent == list(cas[ta_handle], h, parent.token)
       IN  ent.err = "none" /\ ent.res = current_resources(cas[h])

\* The command for an unchanged entitlement is accepted with no events.
C37_NoEvents ==
    \A h \in ChildHandles :
        C37_SameEntitlements(h) =>
            LET parent == CHOOSE p \in cas[h].parents : TRUE
                ent == list(cas[ta_handle], h, parent.token)
            IN  process_command(cas[h], h, upd_entitlements(parent.handle, ent.res))
                    = Accepted(<<>>)

\* update_entitlements for an unchanged entitlement, called on its own, after
\* ca_add_parent or in the refresh, and for the trust anchor in the refresh,
\* commits nothing, does not go on to issue() and queues no work item.
C37_Step ==
    \A h \in Handles :
        /\ (CaEntitlements(h) /\ C37_SameEntitlements(h)) =>
               /\ cas' = cas
               /\ flow' = NoFlow
               /\ outcome' = Outcome(h, "UpdateEntitlements", "none", <<>>)
        /\ (update_all_entitlements_next(h)
               /\ (C37_IsTa(h) \/ C37_SameEntitlements(h))) =>
               /\ cas' = cas
               /\ flow' = NoFlow
               /\ event_queue' = event_queue

\* C37: update_entitlements is idempotent when nothing changed at the
\* parent: when the entitlement of the child equals the resources it holds
\* the UpdateEntitlements command yields no events, neither child nor parent
\* is changed and no certificate is requested or issued; for the trust
\* anchor update_entitlements changes nothing.
C37_UnchangedEntitlementsNoReissue == []C37_NoEvents /\ [][C37_Step]_vars

\* C37 witness: update_entitlements has run for a CA that holds the
\* certificate the trust anchor issued for its whole entitlement, and has
\* ended with no events.
C37_RefreshedWithCertificate ==
    \E h \in ChildHandles :
        /\ C37_SameEntitlements(h)
        /\ cas[h].rc.state = "Active"
        /\ cas[ta_handle].issued[h] # {}
        /\ outcome = Outcome(h, "UpdateEntitlements", "none", <<>>)
        /\ flow = NoFlow

(***************************************************************************)
(* Properties of update_entitlements after a run that failed half way      *)
(***************************************************************************)
\* No update_entitlements is under way and the CA has a committed request
\* for a certificate it has not received: a run has failed after its first
\* commit.
C38_RequestOutstanding(h) ==
    /\ flow.step = "idle"
    /\ cas[h] # NoAgg /\ cas[ta_handle] # NoAgg
    /\ ~cas[h].isTa /\ cas[h].parents # {}
    /\ cas[h].rc.requested

\* The entitlement the trust anchor lists for the CA.
C38_Entitlement(h) ==
    list(cas[ta_handle], h, (CHOOSE p \in cas[h].parents : TRUE).token)

\* Whenever a request is outstanding and the trust anchor lists an
\* entitlement, a run of update_entitlements returns no error and leaves
\* the CA with an active class whose certificate has the entitled
\* resources; when the CA lacked that certificate the run has had it
\* issued by the trust anchor for the current key and no request is left.
C38_RetryCompletes ==
    \A h \in ChildHandles :
        (C38_RequestOutstanding(h) /\ C38_Entitlement(h).err = "none") =>
            LET run == update_entitlements(h)
                child == run.after[h]
            IN  /\ run.err = "none"
                /\ child.rc.state # "Pending"
                /\ current_resources(child) = C38_Entitlement(h).res
                /\ current_resources(cas[h]) # C38_Entitlement(h).res =>
                       /\ ~child.rc.requested
                       /\ [key |-> child.rc.cur.id, res |-> C38_Entitlement(h).res]
                              \in run.after[ta_handle].issued[h]

\* The first commit of such a run asks again for the certificate the CA
\* lacks, and the run goes on to issue().
C38_RetryStep ==
    \A h \in ChildHandles :
        (/\ CaEntitlements(h)
         /\ C38_RequestOutstanding(h)
         /\ C38_Entitlement(h).err = "none"
         /\ current_resources(cas[h]) # C38_Entitlement(h).res) =>
            /\ flow'.step = "issue"
            /\ flow'.res = C38_Entitlement(h).res

C39_StoresAgree == \A u \in Uris : files[u] = rrdp_snapshot[u]

\* A publish that returns an error changes neither the files nor the RRDP
\* state.
C39_FailedPublishStep ==
    \A h \in PubHandles, d \in ApiDeltas, rrdp_result \in RrdpResults :
        (handle_delta_rrdp(h, d, rrdp_result) /\ reply'.result # "ok") =>
            /\ files' = files
            /\ rrdp_state' = rrdp_state

\* C39: Repository.publish is all-or-nothing across its two stores: a
\* publish that returns an error has changed neither the file store nor the
\* RRDP state, and after any sequence of publish calls, failed ones
\* included, the file store and the RRDP snapshot hold the same objects.
C39_PublishAllOrNothing == []C39_StoresAgree /\ [][C39_FailedPublishStep]_vars

(***************************************************************************)
(* Properties of the work queue under concurrent push and pop              *)
(***************************************************************************)
\* The items pushed are, in the order of their push, the items popped
\* followed by the items in the queue: none lost, none twice, first in
\* first out.
C40_Conserved == q_log.pushed = q_log.popped \o event_queue

\* A call works on the VecDeque only while it holds both locks, so what it
\* has read is the queue.
C40_Exclusive ==
    \A t \in QueueThreads :
        /\ q_call[t].at \in {"read", "write"} =>
               q_lock.listener = t /\ q_lock.queue = t
        /\ q_call[t].at = "write" => q_call[t].seen = event_queue

\* A thread that waits for a lock waits for a thread that can go on: the
\* holder of the lock of the listener, who never waits for that lock.
C40_NoDeadlock ==
    (\E t \in QueueThreads : q_call[t].at # "idle") =>
        \E t \in QueueThreads :
            \/ q_call[t].at \in {"read", "write", "return"}
            \/ q_call[t].at = "listener" /\ q_lock.listener = "free"
            \/ q_call[t].at = "queue" /\ q_lock.queue = "free"

\* pop returns None exactly when the queue is empty, and else its front.
C40_PopStep ==
    \A t \in QueueThreads :
        (MemoryEventQueue_done(t) /\ q_call[t].op = "pop") =>
            /\ q_call'[t].result = IF event_queue = <<>> THEN None
                                   ELSE Head(event_queue)
            /\ event_queue # <<>> => event_queue' = Tail(event_queue)

\* C40: the work queue neither loses nor duplicates items under
\* concurrency: while listeners push from committing threads and the
\* scheduler pops, every pushed item is returned by pop at most once and is
\* else still in the queue, items come out in the order they were pushed,
\* pop on an empty queue returns None, and push and pop never deadlock.
C40_QueueIsLinearFifo ==
    /\ [](C40_Conserved /\ C40_Exclusive /\ C40_NoDeadlock)
    /\ [][C40_PopStep]_vars

\* C40 witness: the scheduler has popped an item and holds the locks for
\* its next pop while a committing thread waits to push and an item is in
\* the queue.
C40_PopWhilePushWaits ==
    /\ Len(q_log.popped) = 1
    /\ event_queue # <<>>
    /\ q_call[Scheduler].at = "read"
    /\ \E t \in Threads : q_call[t].at = "listener" /\ q_call[t].op = "push_back"

====
